---- MODULE Spec2Model ----
(***************************************************************************)
(* Model of the view-cone overlay of wkoch3D/cmscomponents:                *)
(*   - the per-context map state store     (mapStore, src/unnamed/part_001) *)
(*   - the orientation store                (src/tinyplanetmap/app/store.ts)*)
(*   - the context binding layer CustomMap  (CustomMap.tsx, lines 490-659)  *)
(*   - the cone overlay controller MapWithCone (CustomMap.tsx, lines 38-488,*)
(*     and its second copy in src/unnamed/part_002)                         *)
(*                                                                         *)
(* Numbers.  Angles are integers counting hundredths of a radian, so the   *)
(* keyboard step 0.02 is 2, Math.PI / 3 is 105 and Math.PI * 1.8 is 565.   *)
(* Lengths are integers counting pixels.  Distances are compared by their  *)
(* squares, which orders them as Math.hypot / Math.sqrt does.              *)
(***************************************************************************)
EXTENDS Integers, Sequences, FiniteSets, Bags, TLC

VARIABLES
    \* ---- per-context map state store (zustand store useMapStore)
    pathToState,      \* Record<string, any>: a function from the keys present
    ret,              \* what the last call returned (has = FALSE: nothing)
    seen,             \* per key: the result of the first read since the last write
    \* ---- orientation store (zustand store useAppState)
    appYaw,           \* yaw of the orientation snapshot
    appPitch,         \* pitch of the orientation snapshot
    positionSubscribers, \* the module-scoped Set, in insertion order
    commands,         \* how often setYawPitch or ensureViewer has been called
    viewer,           \* the stored handle: 0 is null, else the number of the Viewer
    viewerContainer,  \* the stored container: 0 is null
    viewers,          \* every Viewer constructed so far, with the closure of its loop
    connected,        \* the containers whose isConnected is true
    frameEmits,       \* the calls of emit since the current animation frame began
    \* ---- context binding layer (one CustomMap instance)
    mounted,          \* whether CustomMap is mounted (MapWrapper visible)
    pathname,         \* usePathname()
    listener,         \* props.onPositionChange: 0 is none, else the function's identity
    listenerRef,      \* onPositionChangeRef.current
    imageSize,        \* useState imageSize: the base dimensions
    coneLocal,        \* useState coneLocal
    hcc,              \* what the memoised handleConeChange closes over
    subId,            \* the subscriber the pending cleanup of the subscribe effect deletes
    deps,             \* the dependency values each effect last ran with
    needRender,       \* a state or prop change has not been rendered yet
    renders,          \* the renders React has done since the last event
    \* ---- cone overlay controller (one MapWithCone instance on its own)
    props,            \* the props its parent renders it with, the cone among them
    isDragging,       \* useState isDragging
    captured,         \* the pointers captured by the overlay's element
    isMapOpen,        \* useState isMapOpen: the popup window is shown
    pan,              \* useState pan of the popup window
    panDragRef,       \* panDragRef.current
    popupCaptured,    \* the pointers captured by the popup's viewport element
    animationFrameRef, \* animationFrameRef.current: 0 is null
    scheduled,        \* the callbacks requestAnimationFrame holds for the next frame
    nextFrame,        \* the id requestAnimationFrame returns next
    lastMove,         \* the last pointer-move handlePointerMove took up
    baseYawRef,       \* baseYawRef.current
    baseAngleRef,     \* baseAngleRef.current
    screenAngle,      \* window.screen.orientation.angle, in degrees
    \* ---- the clients of subscribePosition, and the measured container
    subscriptions,    \* the unsubscribe actions subscribePosition has returned
    outerSize,        \* useState outerSize of CustomMap
    scale,            \* the memoised scale of CustomMap: the outerSize it was
                      \* computed for, and its value in thousandths
    \* ---- the BeforeAfterSlider (src/unnamed/part_000)
    percent,          \* useState percent
    dragging,         \* useState dragging
    \* ---- what the user did last, per context
    userYaw,          \* the yaw the user gave the cone of each context by key since
                      \* the last emission of the orientation store (history)
    \* ---- what the last operation was, and what it sent outward
    last,             \* the last operation and the facts of its pre-state
    out               \* the outward notifications since the last operation began

storeVars == <<pathToState, ret, seen>>
appVars == <<appYaw, appPitch, positionSubscribers, commands>>
viewVars == <<viewer, viewerContainer, viewers, connected, frameEmits>>
bindVars == <<mounted, pathname, listener, listenerRef, imageSize, coneLocal, hcc,
              subId, deps, needRender, renders>>
ctlVars == <<props, isDragging, captured>>
subVars == <<subscriptions>>
popupVars == <<isMapOpen, pan, panDragRef, popupCaptured>>
frameVars == <<animationFrameRef, scheduled, nextFrame, lastMove>>
screenVars == <<baseYawRef, baseAngleRef, screenAngle>>
sizeVars == <<outerSize, scale>>
sliderVars == <<percent, dragging>>
histVars == <<userYaw>>
moreVars == <<subVars, popupVars, frameVars, screenVars, sizeVars, sliderVars, histVars>>
vars == <<pathToState, ret, seen, appYaw, appPitch, positionSubscribers, commands,
          mounted, pathname, listener, listenerRef, imageSize, coneLocal, hcc,
          subId, deps, needRender, renders, props, isDragging, captured, last, out,
          viewer, viewerContainer, viewers, connected, frameEmits,
          isMapOpen, pan, panDragRef, popupCaptured, animationFrameRef, scheduled,
          nextFrame, lastMove,
          baseYawRef, baseAngleRef, screenAngle, subscriptions, outerSize, scale,
          percent, dragging, userYaw>>

----------------------------------------------------------------------------
(* Bounds of the model *)

\* the largest index setPointAtIndexForPath / setActivePointForPath is called with
MaxIndex == 1

\* the keyboard turns the yaw no farther than this from 0
YawLimit == 2
\* the keyboard moves the pitch no farther than this from a home pitch
PitchDrift == 2

\* the largest coneOriginIndex a parent passes
MaxOriginIndex == 2

\* the calls of ensureViewer and setYawPitch in one run, which bounds the Viewers
MaxCommands == 3
\* the emissions logged after one change of orientation, and in one frame
MaxLog == 2
\* the calls of ensureViewer in a run that follows what reaches the subscribers
MaxFeedCommands == 2
\* the calls of subscribePosition in one run
MaxSubscriptions == 3
\* the calls of requestAnimationFrame in one run
MaxFrames == 3
\* the screen turns the yaw no farther than this from 0
ScreenYawLimit == 700

(* Program constants *)

\* radius?: number left out of a cone
NoRadius == -1
\* Math.PI in hundredths of a radian: an angle of p hundredths is greater than
\* Math.PI exactly if p > 314
Pi == 314

\* Math.PI / 3 in hundredths of a radian
DefaultPitch == 105
\* the slider's percent counts hundredths of a percent: 100, initialPercent = 50,
\* and the steps 2 and 10 of the keyboard
PercentMax == 10000
DefaultPercent == 5000
SliderStep == 200
SliderShiftStep == 1000

\* let picked = -1
NotPicked == -1
\* let best = Infinity
Infinity == -1
\* originHandleRadius = 24
HandleRadius == 24
\* 0.02, the keyboard step
KeyStep == 2
\* Math.PI * 1.8
PitchMax == 565

Listeners == {0, 1}

EmitYaws == {0, 2}

EmitPitches == {0, 10}

\* pitches the runs start near: the default, and the two ends of the clamp
HomePitches == {1, DefaultPitch, 564}

Keys == {"/a", "/b"}

\* points arrays the callers write
PointSeqs == {<<>>, <<[x |-> 40, y |-> 30]>>}

\* GridPoint values the callers write
GridPoints == {[x |-> 40, y |-> 30]}

\* cones the callers write
StoreCones == {[yaw |-> 50, pitch |-> 200, radius |-> 100]}

NoOp == [op |-> "none"]

----------------------------------------------------------------------------
(* Per-context map state store *)

defaultPathState ==
    [points |-> <<>>, activePoint |-> 0,
     cone |-> [yaw |-> 0, pitch |-> DefaultPitch, radius |-> NoRadius]]

\* s.pathToState[path] ?? defaultPathState
RawOrDefault(store, path) ==
    IF path \in DOMAIN store THEN store[path] ELSE defaultPathState

\* a getStateForPath that seeds the default whether or not the key is known
StoreAfterGetReseeding(store, path) ==
    [k \in (DOMAIN store) \cup {path} |-> IF k = path THEN defaultPathState ELSE store[k]]

\* the store after getStateForPath(path): an unknown key is seeded
StoreAfterGet(store, path) ==
    IF path \in DOMAIN store THEN store
    ELSE store @@ (path :> defaultPathState)

\* raw.cone ?? { ...defaultPathState.cone }
ConeOf(raw) == IF "cone" \in DOMAIN raw THEN raw.cone ELSE defaultPathState.cone

\* Array.isArray(raw.points) ? raw.points : []
PointsOf(raw) == IF "points" \in DOMAIN raw THEN raw.points ELSE <<>>

\* the value getStateForPath(path) returns.  A stored record is any record: the
\* legacy shape has a field point and no field points, and what is returned for
\* it has the three fields of PathState and no field point.
StateForPath(store, path) ==
    IF path \notin DOMAIN store THEN defaultPathState
    ELSE LET raw == store[path]
         IN  IF "points" \notin DOMAIN raw /\ "point" \in DOMAIN raw
             THEN [points |-> <<>>, activePoint |-> 0, cone |-> ConeOf(raw)]
             ELSE [points |-> PointsOf(raw),
                   activePoint |-> IF "activePoint" \in DOMAIN raw
                                   THEN raw.activePoint ELSE 0,
                   cone |-> ConeOf(raw)]

\* { ...raw, [field]: value }
Spread(raw, field, value) ==
    [f \in (DOMAIN raw) \cup {field} |-> IF f = field THEN value ELSE raw[f]]

\* a setter that leaves the spread of s.pathToState out
WithEntryAlone(store, path, entry) == path :> entry

WithEntry(store, path, entry) ==
    [k \in (DOMAIN store) \cup {path} |-> IF k = path THEN entry ELSE store[k]]

setPointsForPath(store, path, points) ==
    WithEntry(store, path, Spread(RawOrDefault(store, path), "points", points))

\* a padding loop that pushes the written point instead of {x: 0, y: 0}
PadToWithPoint(pts, index, p) ==
    [i \in 1..(IF Len(pts) > index + 1 THEN Len(pts) ELSE index + 1) |->
        IF i = index + 1 THEN p
        ELSE IF i <= Len(pts) THEN pts[i]
        ELSE p]

\* while (pts.length <= index) pts.push({x: 0, y: 0}); pts[index] = p
PadTo(pts, index, p) ==
    [i \in 1..(IF Len(pts) > index + 1 THEN Len(pts) ELSE index + 1) |->
        IF i = index + 1 THEN p
        ELSE IF i <= Len(pts) THEN pts[i]
        ELSE [x |-> 0, y |-> 0]]

setPointAtIndexForPath(store, path, index, p) ==
    LET prev == RawOrDefault(store, path)
    IN  WithEntry(store, path, Spread(prev, "points", PadTo(PointsOf(prev), index, p)))

setActivePointForPath(store, path, index) ==
    WithEntry(store, path, Spread(RawOrDefault(store, path), "activePoint", index))

\* a setConeForPath that merges the cone into the default state
setConeForPathIntoDefault(store, path, cone) ==
    WithEntry(store, path, [defaultPathState EXCEPT !.cone = cone])

setConeForPath(store, path, cone) ==
    WithEntry(store, path, Spread(RawOrDefault(store, path), "cone", cone))

\* the stores a run starts with: empty, or context "/a" with a point and a radius
InitStores ==
    {<<>>,
     [k \in {"/a"} |->
         [points |-> <<[x |-> 0, y |-> 360]>>, activePoint |-> 0,
          cone |-> [yaw |-> 0, pitch |-> DefaultPitch, radius |-> 100]]]}

----------------------------------------------------------------------------
(* The store driven through its interface *)

Nothing == [has |-> FALSE, state |-> defaultPathState]

Returned(state) == [has |-> TRUE, state |-> state]

NoSeen == [k \in Keys |-> Nothing]

\* CustomMap not mounted, and the orientation store as created
NoDeps == [cone |-> defaultPathState.cone, seed |-> <<>>, sub |-> <<>>, yawEff |-> <<>>]

FallbackImageSize == [w |-> 525, h |-> 360]

\* useState outerSize: { w: 0, h: 0 }
Unmeasured == [w |-> 0, h |-> 0]

\* the scale before the container is measured: return 1, in thousandths
Unscaled == [deps |-> Unmeasured, value |-> 1000]

\* naturalWidth and naturalHeight of the background image
NaturalSize == [w |-> 1000, h |-> 700]

\* no yaw given by the user
NoUserYaw == [k \in Keys |-> [has |-> FALSE, yaw |-> 0]]

\* no BeforeAfterSlider is rendered
NoSlider ==
    /\ percent = DefaultPercent
    /\ dragging = FALSE

Unmounted ==
    /\ mounted = FALSE
    /\ pathname = "/a"
    /\ listener = 0
    /\ listenerRef = 0
    /\ imageSize = FallbackImageSize
    /\ coneLocal = defaultPathState.cone
    /\ hcc = [path |-> "/a", listener |-> 0]
    /\ subId = 0
    /\ deps = NoDeps
    /\ needRender = FALSE
    /\ renders = 0
    /\ outerSize = Unmeasured
    /\ scale = Unscaled
    /\ userYaw = NoUserYaw

\* panDragRef as created
NoPanDrag == [active |-> FALSE, startX |-> 0, startY |-> 0, startPanX |-> 0, startPanY |-> 0]

\* the refs and state of a MapWithCone as created, but for baseYawRef
OverlayCreated ==
    /\ isDragging = FALSE
    /\ captured = {}
    /\ isMapOpen = FALSE
    /\ pan = [x |-> 0, y |-> 0]
    /\ panDragRef = NoPanDrag
    /\ popupCaptured = {}
    /\ animationFrameRef = 0
    /\ scheduled = {}
    /\ nextFrame = 1
    /\ lastMove = [x |-> 0, y |-> 0]
    /\ baseAngleRef = 0
    /\ screenAngle = 0

\* no MapWithCone on its own
NoOverlay ==
    /\ props = [variant |-> "none"]
    /\ baseYawRef = 0
    /\ OverlayCreated

AppCreated ==
    /\ appYaw = 0
    /\ appPitch = 0
    /\ positionSubscribers = <<>>
    /\ subscriptions = <<>>
    /\ commands = 0
    /\ viewer = 0
    /\ viewerContainer = 0
    /\ viewers = <<>>
    /\ connected = {}
    /\ frameEmits = 0

StoreInit ==
    /\ pathToState = <<>>
    /\ ret = Nothing
    /\ seen = NoSeen
    /\ last = NoOp
    /\ out = <<>>
    /\ Unmounted
    /\ AppCreated
    /\ NoSlider
    /\ NoOverlay

GetStateForPath(k) ==
    /\ pathToState' = StoreAfterGet(pathToState, k)
    /\ ret' = Returned(StateForPath(pathToState, k))
    /\ seen' = IF seen[k].has THEN seen
               ELSE [seen EXCEPT ![k] = Returned(StateForPath(pathToState, k))]
    /\ last' = [op |-> "get", key |-> k, known |-> k \in DOMAIN pathToState,
                again |-> seen[k].has]
    /\ out' = <<>>
    /\ UNCHANGED <<moreVars, viewVars, appVars, bindVars, ctlVars>>

\* a setter called on key k: what names the field, index and value its arguments
Wrote(k, what, index, value, store) ==
    /\ pathToState' = store
    /\ seen' = [seen EXCEPT ![k] = Nothing]
    /\ ret' = Nothing
    /\ last' = [op |-> "set", key |-> k, known |-> k \in DOMAIN pathToState,
                what |-> what, index |-> index, value |-> value]
    /\ UNCHANGED <<moreVars, viewVars, out, appVars, bindVars, ctlVars>>

SetPointsForPath(k, pts) ==
    Wrote(k, "points", 0, pts, setPointsForPath(pathToState, k, pts))

SetPointAtIndexForPath(k, i, p) ==
    Wrote(k, "point", i, p, setPointAtIndexForPath(pathToState, k, i, p))

SetActivePointForPath(k, i) ==
    Wrote(k, "active", i, i, setActivePointForPath(pathToState, k, i))

SetConeForPath(k, c) ==
    Wrote(k, "cone", 0, c, setConeForPath(pathToState, k, c))

StoreNext ==
    \/ \E k \in Keys : GetStateForPath(k)
    \/ \E k \in Keys, pts \in PointSeqs : SetPointsForPath(k, pts)
    \/ \E k \in Keys, i \in 0..MaxIndex, p \in GridPoints : SetPointAtIndexForPath(k, i, p)
    \/ \E k \in Keys, i \in 0..MaxIndex : SetActivePointForPath(k, i)
    \/ \E k \in Keys, c \in StoreCones : SetConeForPath(k, c)

SpecStore == StoreInit /\ [][StoreNext]_vars

----------------------------------------------------------------------------
(* Cone overlay controller: MapWithCone of CustomMap.tsx *)

Min(a, b) == IF a < b THEN a ELSE b

Max(a, b) == IF a > b THEN a ELSE b

KeyNames == {"ArrowLeft", "ArrowRight", "ArrowUp", "ArrowDown", "Enter"}

\* the switch sets updated for the four arrow keys only
KeyUpdates(key) == key \in {"ArrowLeft", "ArrowRight", "ArrowUp", "ArrowDown"}

\* the cone handleKeyDown passes to onConeChange
handleKeyDown(cone, key) ==
    LET newYaw == CASE key = "ArrowLeft" -> cone.yaw - KeyStep
                    [] key = "ArrowRight" -> cone.yaw + KeyStep
                    [] OTHER -> cone.yaw
        newPitch == CASE key = "ArrowUp" -> Min(cone.pitch + KeyStep, PitchMax)
                      [] key = "ArrowDown" -> Max(cone.pitch - KeyStep, 0)
                      [] OTHER -> cone.pitch
    IN  [cone EXCEPT !.yaw = newYaw, !.pitch = newPitch]

\* the cones the model lets the keyboard reach
InWindow(cone) ==
    /\ cone.yaw >= -YawLimit /\ cone.yaw <= YawLimit
    /\ \E h \in HomePitches : cone.pitch >= h - PitchDrift /\ cone.pitch <= h + PitchDrift

\* Math.hypot(dxp, dyp) and Math.sqrt(dx * dx + dy * dy), squared
Dist2(x, y, p) == (x - p.x) * (x - p.x) + (y - p.y) * (y - p.y)

\* points[coneOriginIndex] || { x: width / 2, y: height / 2 }
Origin(pr) ==
    IF pr.coneOriginIndex >= 0 /\ pr.coneOriginIndex < Len(pr.points)
    THEN pr.points[pr.coneOriginIndex + 1]
    ELSE [x |-> pr.width \div 2, y |-> pr.height \div 2]

\* a picking loop that takes a point only if it is nearer than the radius
PickStepInsideRadius(acc, i, dp2, r) ==
    IF (acc.best = Infinity \/ dp2 < acc.best) /\ dp2 < r * r
    THEN [best |-> dp2, picked |-> i]
    ELSE acc

\* a picking loop that keeps the first point within the radius
PickStepFirstInRadius(acc, i, dp2, r) ==
    IF acc.picked = NotPicked /\ dp2 <= r * r
    THEN [best |-> dp2, picked |-> i]
    ELSE acc

\* the body of the picking loop for point i at squared distance dp2:
\* if (dp < best && dp <= originHandleRadius) { best = dp; picked = i; }
PickStep(acc, i, dp2, r) ==
    IF (acc.best = Infinity \/ dp2 < acc.best) /\ dp2 <= r * r
    THEN [best |-> dp2, picked |-> i]
    ELSE acc

\* for (let i = 0; i < points.length; i++), from i on
RECURSIVE PickLoop(_, _, _, _, _, _)
PickLoop(points, x, y, r, i, acc) ==
    IF i >= Len(points) THEN acc.picked
    ELSE PickLoop(points, x, y, r, i + 1,
                  PickStep(acc, i, Dist2(x, y, points[i + 1]), r))

Picked(points, x, y, r) ==
    PickLoop(points, x, y, r, 0, [best |-> Infinity, picked |-> NotPicked])

SelectOrigin(index) == [kind |-> "select", index |-> index]

ConeChanged(cone) == [kind |-> "cone", cone |-> cone]

\* a handlePointerDown without the return after onSelectOrigin
handlePointerDownFallingThrough(pr, st, e) ==
    IF ~pr.interactive THEN st
    ELSE LET picked == Picked(pr.points, e.x, e.y, pr.originHandleRadius)
             told == IF picked # NotPicked /\ pr.onSelectOrigin
                     THEN [st EXCEPT !.notes = Append(@, SelectOrigin(picked))]
                     ELSE st
         IN  IF Dist2(e.x, e.y, Origin(pr))
                   <= pr.originHandleRadius * pr.originHandleRadius
             THEN [told EXCEPT !.isDragging = TRUE,
                               !.captured = @ \cup {e.pointerId}]
             ELSE told

\* handlePointerDown of CustomMap.tsx; st is the state and what has been sent
\* outward, e the event (pointerId, and x, y relative to the container)
handlePointerDown(pr, st, e) ==
    IF ~pr.interactive THEN st
    ELSE LET picked == Picked(pr.points, e.x, e.y, pr.originHandleRadius)
         IN  IF picked # NotPicked
             THEN [st EXCEPT !.notes = IF pr.onSelectOrigin
                                       THEN Append(@, SelectOrigin(picked))
                                       ELSE @]
             ELSE IF Dist2(e.x, e.y, Origin(pr))
                        <= pr.originHandleRadius * pr.originHandleRadius
                  THEN [st EXCEPT !.isDragging = TRUE,
                                  !.captured = @ \cup {e.pointerId}]
                  ELSE st

\* a handlePointerDown that starts the drag without setPointerCapture
handlePointerDown2NoCapture(pr, st, e) ==
    IF ~pr.interactive THEN st
    ELSE IF Dist2(e.x, e.y, Origin(pr))
               <= pr.originHandleRadius * pr.originHandleRadius
         THEN [st EXCEPT !.isDragging = TRUE]
         ELSE st

\* handlePointerDown of the copy in part_002, which has no origin picking
handlePointerDown2(pr, st, e) ==
    IF ~pr.interactive THEN st
    ELSE IF Dist2(e.x, e.y, Origin(pr))
               <= pr.originHandleRadius * pr.originHandleRadius
         THEN [st EXCEPT !.isDragging = TRUE, !.captured = @ \cup {e.pointerId}]
         ELSE st

\* a handlePointerUp without the isDragging test
handlePointerUpUnguarded(st, e) ==
    [st EXCEPT !.isDragging = FALSE, !.captured = @ \ {e.pointerId}]

\* handlePointerUp of CustomMap.tsx
handlePointerUp(st, e) ==
    IF st.isDragging
    THEN [st EXCEPT !.isDragging = FALSE, !.captured = @ \ {e.pointerId}]
    ELSE st

\* handlePointerUp of the copy in part_002
handlePointerUp2(st, e) ==
    IF st.isDragging
    THEN [st EXCEPT !.isDragging = FALSE, !.captured = @ \ {e.pointerId}]
    ELSE st

\* a handleKeyDown whose ArrowDown is not clamped at 0
handleKeyDown2Unclamped(cone, key) ==
    LET newYaw == CASE key = "ArrowLeft" -> cone.yaw - KeyStep
                    [] key = "ArrowRight" -> cone.yaw + KeyStep
                    [] OTHER -> cone.yaw
        newPitch == CASE key = "ArrowUp" -> Min(cone.pitch + KeyStep, PitchMax)
                      [] key = "ArrowDown" -> cone.pitch - KeyStep
                      [] OTHER -> cone.pitch
    IN  [cone EXCEPT !.yaw = newYaw, !.pitch = newPitch]

\* the cone handleKeyDown of the copy in part_002 passes to onConeChange
handleKeyDown2(cone, key) ==
    LET newYaw == CASE key = "ArrowLeft" -> cone.yaw - KeyStep
                    [] key = "ArrowRight" -> cone.yaw + KeyStep
                    [] OTHER -> cone.yaw
        newPitch == CASE key = "ArrowUp" -> Min(cone.pitch + KeyStep, PitchMax)
                      [] key = "ArrowDown" -> Max(cone.pitch - KeyStep, 0)
                      [] OTHER -> cone.pitch
    IN  [cone EXCEPT !.yaw = newYaw, !.pitch = newPitch]

\* the props a MapWithCone on its own is rendered with
PointA == [x |-> 10, y |-> 10]

PointB == [x |-> 30, y |-> 10]

PointLists == {<<>>, <<PointA>>, <<PointA, PointB>>, <<PointB, PointA>>}

OverlayProps ==
    {[variant |-> v, points |-> pts, coneOriginIndex |-> i, interactive |-> ia,
      onConeChange |-> occ, onSelectOrigin |-> oso, width |-> 100, height |-> 80,
      originHandleRadius |-> HandleRadius,
      cone |-> [yaw |-> 0, pitch |-> h, radius |-> NoRadius]] :
        v \in {"picking", "plain"}, pts \in PointLists, i \in 0..MaxOriginIndex,
        ia \in BOOLEAN, occ \in BOOLEAN, oso \in BOOLEAN, h \in HomePitches}

\* where the pointer goes down: between the two points, nearer the second, on the
\* rim of the first one's handle, on the centre, near the centre, far from all
PointerSpots ==
    {[x |-> 20, y |-> 10], [x |-> 22, y |-> 10], [x |-> 10, y |-> 34],
     [x |-> 50, y |-> 40], [x |-> 30, y |-> 40], [x |-> 10, y |-> 40]}

PointerIds == {1, 2}

Overlay == [isDragging |-> isDragging, captured |-> captured, notes |-> <<>>]

Handled(st) ==
    /\ isDragging' = st.isDragging
    /\ captured' = st.captured
    /\ out' = st.notes

Before == [was |-> isDragging, held |-> captured, cone |-> props.cone]

\* the event of pointer id at the spot at
PointerEvent(id, at) == [pointerId |-> id, x |-> at.x, y |-> at.y]

PointerDown(id, at) ==
    /\ Handled(IF props.variant = "picking"
               THEN handlePointerDown(props, Overlay, PointerEvent(id, at))
               ELSE handlePointerDown2(props, Overlay, PointerEvent(id, at)))
    /\ last' = [op |-> "down", e |-> PointerEvent(id, at), before |-> Before]
    /\ UNCHANGED <<moreVars, viewVars, storeVars, appVars, bindVars, props>>

PointerUp(id) ==
    /\ Handled(IF props.variant = "picking"
               THEN handlePointerUp(Overlay, [pointerId |-> id])
               ELSE handlePointerUp2(Overlay, [pointerId |-> id]))
    /\ last' = [op |-> "up", e |-> [pointerId |-> id], before |-> Before]
    /\ UNCHANGED <<moreVars, viewVars, storeVars, appVars, bindVars, props>>

\* rotateWithScreen = false unless the parent passes it
RotateWithScreen(pr) == "rotateWithScreen" \in DOMAIN pr /\ pr.rotateWithScreen

\* the % of the source: the remainder has the sign of the dividend
Rem(a, b) == IF a >= 0 THEN a % b ELSE -((-a) % b)

\* getScreenAngleRad for a screen at deg degrees, in hundredths of a radian
getScreenAngleRad(deg) == (Rem(Rem(deg, 360) + 360, 360) * Pi) \div 180

\* a baseline effect that runs when rotateWithScreen changes only
RecapturesOnEnabling(before, after) ==
    RotateWithScreen(after) /\ ~RotateWithScreen(before)

\* the baseline effect runs after a render that changed rotateWithScreen or
\* cone.yaw, and does nothing unless rotateWithScreen
Recaptures(before, after) ==
    /\ RotateWithScreen(after)
    /\ ~RotateWithScreen(before) \/ before.cone.yaw # after.cone.yaw

\* the baseline effect of the render with the props after, the screen at deg
Baseline(after, deg) ==
    IF Recaptures(props, after)
    THEN /\ baseYawRef' = after.cone.yaw
         /\ baseAngleRef' = getScreenAngleRad(deg)
    ELSE UNCHANGED <<baseYawRef, baseAngleRef>>

\* a key press; the parent renders the overlay with the cone it is handed
OverlayKeyDown(key) ==
    LET next == IF props.variant = "picking"
                THEN handleKeyDown(props.cone, key)
                ELSE handleKeyDown2(props.cone, key)
        emits == props.interactive /\ props.onConeChange /\ KeyUpdates(key)
    IN  /\ emits => InWindow(next)
        /\ out' = IF emits THEN <<ConeChanged(next)>> ELSE <<>>
        /\ props' = IF emits THEN [props EXCEPT !.cone = next] ELSE props
        /\ Baseline(props', screenAngle)
        /\ last' = [op |-> "key", key |-> key, before |-> Before]
        /\ UNCHANGED <<sliderVars, histVars, subVars,
                   popupVars, frameVars, sizeVars, screenAngle, viewVars,
                       storeVars, appVars, bindVars, isDragging, captured>>

OverlayInit ==
    /\ pathToState = <<>>
    /\ ret = Nothing
    /\ seen = NoSeen
    /\ Unmounted
    /\ AppCreated
    /\ NoSlider
    /\ props \in OverlayProps
    /\ props.variant = "plain" => ~props.onSelectOrigin
    /\ baseYawRef = props.cone.yaw
    /\ OverlayCreated
    /\ last = NoOp
    /\ out = <<>>

OverlayNext ==
    \/ \E id \in PointerIds, at \in PointerSpots : PointerDown(id, at)
    \/ \E id \in PointerIds : PointerUp(id)
    \/ \E key \in KeyNames : OverlayKeyDown(key)

SpecController == OverlayInit /\ [][OverlayNext]_vars

----------------------------------------------------------------------------
(* Cone overlay controller: dragging the cone, throttled by animation frames *)

\* where the pointer moves to, from the origin: right, below, left, below right
Directions == {[x |-> 1, y |-> 0], [x |-> 0, y |-> 1], [x |-> -1, y |-> 0],
               [x |-> 1, y |-> 1]}

\* Math.atan2(dy, dx) in hundredths of a radian, along the axes and diagonals
Atan2(dy, dx) ==
    CASE dy = 0 /\ dx >= 0 -> 0
      [] dy = 0 /\ dx < 0 -> 314
      [] dx = 0 /\ dy > 0 -> 157
      [] dx = 0 /\ dy < 0 -> -157
      [] dy = dx /\ dx > 0 -> 79
      [] dy = dx /\ dx < 0 -> -236
      [] dy = -dx /\ dx > 0 -> -79
      [] dy = -dx /\ dx < 0 -> 236

\* the callback handlePointerMove gives to requestAnimationFrame: the event and
\* the origin and cone of the render that made handlePointerMove
FrameCallback(id, e, pr) ==
    [id |-> id, x |-> e.x, y |-> e.y, origin |-> Origin(pr), cone |-> pr.cone]

\* a handlePointerMove that requests a frame without cancelling the pending one
RequestedKeepingPending(pending, ref, cb) == pending \cup {cb}

\* if (animationFrameRef.current) cancelAnimationFrame(animationFrameRef.current);
\* animationFrameRef.current = requestAnimationFrame(cb)
Requested(pending, ref, cb) == {c \in pending : c.id # ref} \cup {cb}

\* the cone the callback passes to onConeChange: { ...cone, yaw: newYaw }
FrameCone(cb) == [cb.cone EXCEPT !.yaw = Atan2(cb.y - cb.origin.y, cb.x - cb.origin.x)]

\* the callbacks of one frame, by id
RECURSIVE RunFrame(_, _)
RunFrame(pending, notes) ==
    IF pending = {} THEN notes
    ELSE LET cb == CHOOSE c \in pending : \A d \in pending : c.id <= d.id
         IN  RunFrame(pending \ {cb}, Append(notes, ConeChanged(FrameCone(cb))))

\* a MapWithCone is rendered
Rendered == props.variant # "none"

\* a handlePointerMove that returns early only if the overlay is not dragged
MoveTakenWhileDragging(pr, drags) == drags

\* if (!isDragging || !interactive || !containerRef.current || !onConeChange) return
MoveTaken(pr, drags) == drags /\ pr.interactive /\ pr.onConeChange

\* handlePointerMove with the pointer at the offset d from the origin
PointerMove(d) ==
    LET e == [x |-> Origin(props).x + d.x, y |-> Origin(props).y + d.y]
        takes == MoveTaken(props, isDragging)
    IN  /\ takes => nextFrame <= MaxFrames
        /\ scheduled' = IF takes
                        THEN Requested(scheduled, animationFrameRef,
                                       FrameCallback(nextFrame, e, props))
                        ELSE scheduled
        /\ animationFrameRef' = IF takes THEN nextFrame ELSE animationFrameRef
        /\ nextFrame' = IF takes THEN nextFrame + 1 ELSE nextFrame
        /\ lastMove' = IF takes THEN e ELSE lastMove
        /\ last' = [op |-> "move", e |-> e, took |-> takes, before |-> Before]
        /\ out' = <<>>
        /\ UNCHANGED <<sliderVars, histVars, subVars,
                   popupVars, screenVars, sizeVars, viewVars, storeVars,
                       appVars, bindVars, ctlVars>>

\* the browser runs the callbacks requested for this frame; the parent renders
\* the overlay with the cone it is handed
Frame ==
    LET notes == RunFrame(scheduled, <<>>)
    IN  /\ scheduled # {}
        /\ scheduled' = {}
        /\ out' = notes
        /\ props' = [props EXCEPT !.cone = notes[Len(notes)].cone]
        /\ Baseline(props', screenAngle)
        /\ last' = [op |-> "frame", ran |-> scheduled, shown |-> Rendered, before |-> Before]
        /\ UNCHANGED <<sliderVars, histVars, subVars,
                   popupVars, screenAngle, sizeVars, animationFrameRef,
                       nextFrame, lastMove, viewVars, storeVars, appVars, bindVars,
                       isDragging, captured>>

\* the overlay is unmounted: the cleanup cancels animationFrameRef.current
OverlayUnmount ==
    /\ Rendered
    /\ props' = [props EXCEPT !.variant = "none"]
    /\ scheduled' = {c \in scheduled : c.id # animationFrameRef}
    /\ isDragging' = FALSE
    /\ captured' = {}
    /\ last' = [op |-> "gone", before |-> Before]
    /\ out' = <<>>
    /\ UNCHANGED <<sliderVars, histVars, subVars,
                   popupVars, screenVars, sizeVars, animationFrameRef,
                   nextFrame, lastMove, viewVars, storeVars, appVars, bindVars>>

\* the overlays dragged: with the origin on a point or on the centre
DragProps ==
    {pr \in OverlayProps :
        /\ ~pr.onSelectOrigin
        /\ pr.coneOriginIndex = 0 /\ pr.points \in {<<>>, <<PointA>>}
        /\ pr.cone.pitch = DefaultPitch}

DragInit ==
    /\ pathToState = <<>>
    /\ ret = Nothing
    /\ seen = NoSeen
    /\ Unmounted
    /\ AppCreated
    /\ NoSlider
    /\ props \in DragProps
    /\ baseYawRef = props.cone.yaw
    /\ OverlayCreated
    /\ last = NoOp
    /\ out = <<>>

DragNext ==
    \/ \E id \in PointerIds, at \in PointerSpots : Rendered /\ PointerDown(id, at)
    \/ \E d \in Directions : Rendered /\ PointerMove(d)
    \/ \E id \in PointerIds : Rendered /\ PointerUp(id)
    \/ \E key \in KeyNames : Rendered /\ OverlayKeyDown(key)
    \/ Frame
    \/ OverlayUnmount

SpecDrag == DragInit /\ [][DragNext]_vars

----------------------------------------------------------------------------
(* Cone overlay controller: following the orientation of the screen *)

\* screen.orientation.angle, or window.orientation where that is missing
ScreenDegrees == {0, 90, 180, 270, -90}

ScreenEvents == {"orientationchange", "resize"}

ScreenRotated(newYaw) == [kind |-> "screen", yaw |-> newYaw]

\* handleOrientation, listening while rotateWithScreen and onConeChange
handleOrientation(pr, deg) ==
    LET newYaw == baseYawRef + (getScreenAngleRad(deg) - baseAngleRef)
    IN  <<ConeChanged([pr.cone EXCEPT !.yaw = newYaw])>>
        \o (IF pr.onRotateWithScreen THEN <<ScreenRotated(newYaw)>> ELSE <<>>)

\* the window gets the event with the screen at deg degrees: an orientationchange
\* when the screen has turned, a resize at any time; the parent renders the
\* overlay with the cone it is handed
ScreenEvent(kind, deg) ==
    LET listens == RotateWithScreen(props) /\ props.onConeChange
        notes == IF listens THEN handleOrientation(props, deg) ELSE <<>>
    IN  /\ kind = "orientationchange" => deg # screenAngle
        /\ listens => /\ notes[1].cone.yaw >= -ScreenYawLimit
                       /\ notes[1].cone.yaw <= ScreenYawLimit
        /\ screenAngle' = deg
        /\ out' = notes
        /\ props' = IF listens THEN [props EXCEPT !.cone = notes[1].cone] ELSE props
        /\ Baseline(props', deg)
        /\ last' = [op |-> "screen", kind |-> kind, listens |-> listens,
                    from |-> getScreenAngleRad(screenAngle),
                    to |-> getScreenAngleRad(deg), before |-> Before]
        /\ UNCHANGED <<sliderVars, histVars, subVars,
                   popupVars, frameVars, sizeVars, viewVars, storeVars,
                       appVars, bindVars, isDragging, captured>>

\* the parent renders the overlay with another rotateWithScreen
SetRotateWithScreen(on) ==
    /\ on # props.rotateWithScreen
    /\ props' = [props EXCEPT !.rotateWithScreen = on]
    /\ Baseline(props', screenAngle)
    /\ last' = [op |-> "follow", on |-> on, before |-> Before]
    /\ out' = <<>>
    /\ UNCHANGED <<sliderVars, histVars, subVars,
                   popupVars, frameVars, sizeVars, screenAngle, viewVars,
                   storeVars, appVars, bindVars, isDragging, captured>>

ScreenProps ==
    {[variant |-> v, points |-> <<PointA>>, coneOriginIndex |-> 0,
      interactive |-> TRUE, onConeChange |-> occ, onSelectOrigin |-> FALSE,
      width |-> 100, height |-> 80, originHandleRadius |-> HandleRadius,
      cone |-> [yaw |-> 0, pitch |-> DefaultPitch, radius |-> NoRadius],
      rotateWithScreen |-> rws, onRotateWithScreen |-> ors] :
        v \in {"picking", "plain"}, occ \in BOOLEAN, rws \in BOOLEAN,
        ors \in BOOLEAN}

ScreenInit ==
    /\ pathToState = <<>>
    /\ ret = Nothing
    /\ seen = NoSeen
    /\ Unmounted
    /\ AppCreated
    /\ NoSlider
    /\ props \in ScreenProps
    /\ baseYawRef = props.cone.yaw
    /\ OverlayCreated
    /\ last = NoOp
    /\ out = <<>>

ScreenNext ==
    \/ \E kind \in ScreenEvents, deg \in ScreenDegrees : ScreenEvent(kind, deg)
    \/ \E on \in BOOLEAN : SetRotateWithScreen(on)
    \/ \E key \in KeyNames : OverlayKeyDown(key)

SpecScreen == ScreenInit /\ [][ScreenNext]_vars

----------------------------------------------------------------------------
(* Cone overlay controller: the popup window and its panning *)

\* the size getBoundingClientRect gives the popup's viewport: smaller than the
\* 100x80 content, equal to it, larger, and smaller on one axis only
ViewportSizes ==
    {[w |-> 60, h |-> 50], [w |-> 100, h |-> 80], [w |-> 120, h |-> 100],
     [w |-> 60, h |-> 80]}

\* clientX and clientY of the pointer events on the popup
PanSpots == {[x |-> 100, y |-> 100], [x |-> 70, y |-> 90], [x |-> 130, y |-> 100],
             [x |-> 20, y |-> 130]}

\* a pointer-move that does not hold the pan at the far edge of the content
PanToUnbounded(ref, e, content, viewport) ==
    LET dx == e.x - ref.startX
        dy == e.y - ref.startY
    IN  [x |-> Max(ref.startPanX - dx, 0), y |-> Max(ref.startPanY - dy, 0)]

\* the pan onPointerMove of the popup's viewport sets
PanTo(ref, e, content, viewport) ==
    LET maxX == Max(0, content.w - viewport.w)
        maxY == Max(0, content.h - viewport.h)
        dx == e.x - ref.startX
        dy == e.y - ref.startY
    IN  [x |-> Min(Max(ref.startPanX - dx, 0), maxX),
         y |-> Min(Max(ref.startPanY - dy, 0), maxY)]

Content == [w |-> props.width, h |-> props.height]

PanBefore == [pan |-> pan, ref |-> panDragRef]

\* handleMapOpen: setIsMapOpen(true).  The copy in part_002 puts it on the map
\* button; CustomMap.tsx defines it and renders no control that calls it.
MapOpen ==
    /\ ~isMapOpen
    /\ isMapOpen' = TRUE
    /\ last' = [op |-> "open"]
    /\ out' = <<>>
    /\ UNCHANGED <<sliderVars, histVars, subVars,
                   frameVars, screenVars, sizeVars, pan, panDragRef,
                   popupCaptured, viewVars, storeVars, appVars, bindVars, ctlVars>>

\* handleMapClose: setIsMapOpen(false); the popup's elements go, pan and
\* panDragRef stay with the component
MapClose ==
    /\ isMapOpen
    /\ isMapOpen' = FALSE
    /\ popupCaptured' = {}
    /\ last' = [op |-> "close"]
    /\ out' = <<>>
    /\ UNCHANGED <<sliderVars, histVars, subVars,
                   frameVars, screenVars, sizeVars, pan, panDragRef,
                   viewVars, storeVars, appVars, bindVars, ctlVars>>

\* onPointerDown of the popup's viewport
PanPointerDown(id, at) ==
    /\ isMapOpen
    /\ popupCaptured' = popupCaptured \cup {id}
    /\ panDragRef' = [active |-> TRUE, startX |-> at.x, startY |-> at.y,
                      startPanX |-> pan.x, startPanY |-> pan.y]
    /\ last' = [op |-> "pandown", x |-> at.x, y |-> at.y, before |-> PanBefore]
    /\ out' = <<>>
    /\ UNCHANGED <<sliderVars, histVars, subVars,
                   frameVars, screenVars, sizeVars, isMapOpen, pan,
                   viewVars, storeVars, appVars, bindVars, ctlVars>>

\* onPointerMove of the popup's viewport
PanPointerMove(at) ==
    /\ isMapOpen
    /\ pan' = IF panDragRef.active
              THEN PanTo(panDragRef, at, Content, props.viewport)
              ELSE pan
    /\ last' = [op |-> "panmove", x |-> at.x, y |-> at.y, before |-> PanBefore]
    /\ out' = <<>>
    /\ UNCHANGED <<sliderVars, histVars, subVars,
                   frameVars, screenVars, sizeVars, isMapOpen, panDragRef,
                   popupCaptured, viewVars, storeVars, appVars, bindVars, ctlVars>>

\* onPointerUp of the popup's viewport
PanPointerUp(id) ==
    /\ isMapOpen
    /\ popupCaptured' = popupCaptured \ {id}
    /\ panDragRef' = [panDragRef EXCEPT !.active = FALSE]
    /\ last' = [op |-> "panup", before |-> PanBefore]
    /\ out' = <<>>
    /\ UNCHANGED <<sliderVars, histVars, subVars,
                   frameVars, screenVars, sizeVars, isMapOpen, pan,
                   viewVars, storeVars, appVars, bindVars, ctlVars>>

\* a MapWithCone of 100x80 whose popup viewport has one of the sizes
PopupProps ==
    {[variant |-> "picking", points |-> <<PointA>>, coneOriginIndex |-> 0,
      interactive |-> TRUE, onConeChange |-> TRUE, onSelectOrigin |-> FALSE,
      width |-> 100, height |-> 80, originHandleRadius |-> HandleRadius,
      cone |-> [yaw |-> 0, pitch |-> DefaultPitch, radius |-> NoRadius],
      viewport |-> v] : v \in ViewportSizes}

PopupInit ==
    /\ pathToState = <<>>
    /\ ret = Nothing
    /\ seen = NoSeen
    /\ Unmounted
    /\ AppCreated
    /\ NoSlider
    /\ props \in PopupProps
    /\ baseYawRef = props.cone.yaw
    /\ OverlayCreated
    /\ last = NoOp
    /\ out = <<>>

PopupNext ==
    \/ MapOpen
    \/ MapClose
    \/ \E id \in PointerIds, at \in PanSpots : PanPointerDown(id, at)
    \/ \E at \in PanSpots : PanPointerMove(at)
    \/ \E id \in PointerIds : PanPointerUp(id)

SpecPopup == PopupInit /\ [][PopupNext]_vars

----------------------------------------------------------------------------
(* Orientation store: subscribePosition and emit *)

\* positionSubscribers.add(cb): every effect run registers a new function, named
\* here by the least identity not in use
FreshId(subs) ==
    CHOOSE i \in 1..(Len(subs) + 1) : \A j \in 1..Len(subs) : subs[j].id # i

\* Set.prototype.add: a value already in the Set is not added again
Subscribed(subs, cb) ==
    IF \E j \in 1..Len(subs) : subs[j] = cb THEN subs ELSE Append(subs, cb)

\* an unsubscribe action that deletes nothing
UnsubscribedNothing(subs, id) == subs

\* the unsubscribe action: positionSubscribers.delete(cb)
Unsubscribed(subs, id) == SelectSeq(subs, LAMBDA c : c.id # id)

----------------------------------------------------------------------------
(* Context binding layer: CustomMap *)

Position(to, yaw, pitch) == [kind |-> "position", to |-> to, yaw |-> yaw, pitch |-> pitch]

\* a subscriber callback that turns the viewer to the yaw it was handed
OnViewerPositionCommanding(cb, yaw, w) ==
    LET prev == w.local
        changed == prev.yaw # yaw
    IN  [local |-> IF changed THEN [prev EXCEPT !.yaw = yaw] ELSE prev,
         store |-> IF changed
                   THEN setConeForPath(w.store, cb.path,
                            [yaw |-> yaw, pitch |-> prev.pitch, radius |-> prev.radius])
                   ELSE w.store,
         notes |-> IF w.ref # 0
                   THEN Append(w.notes, Position(w.ref, yaw, cb.pitch))
                   ELSE w.notes,
         ref |-> w.ref,
         commands |-> IF changed THEN w.commands + 1 ELSE w.commands,
         set |-> w.set \/ changed]

\* the callback CustomMap hands to subscribePosition, called with {yaw}.
\* cb is the closure (its pathname and coneLocal.pitch), w the state it works on.
OnViewerPosition(cb, yaw, w) ==
    LET prev == w.local
        changed == prev.yaw # yaw
    IN  [local |-> IF changed THEN [prev EXCEPT !.yaw = yaw] ELSE prev,
         store |-> IF changed
                   THEN setConeForPath(w.store, cb.path,
                            [yaw |-> yaw, pitch |-> prev.pitch, radius |-> prev.radius])
                   ELSE w.store,
         notes |-> IF w.ref # 0
                   THEN Append(w.notes, Position(w.ref, yaw, cb.pitch))
                   ELSE w.notes,
         ref |-> w.ref,
         commands |-> w.commands,
         set |-> w.set \/ changed]

\* positionSubscribers.forEach(fn => fn({yaw, pitch}))
RECURSIVE ForEachSubscriber(_, _, _)
ForEachSubscriber(subs, yaw, w) ==
    IF subs = <<>> THEN w
    ELSE ForEachSubscriber(Tail(subs), yaw, OnViewerPosition(Head(subs), yaw, w))

\* handleConeChange(next), as memoised with the pathname and the props of the
\* render that created it
HandleConeChange(h, next, w) ==
    [local |-> next,
     store |-> setConeForPath(w.store, h.path,
                   [yaw |-> next.yaw, pitch |-> next.pitch, radius |-> next.radius]),
     notes |-> IF h.listener # 0
               THEN Append(w.notes, Position(h.listener, next.yaw, next.pitch))
               ELSE w.notes,
     ref |-> w.ref,
     commands |-> w.commands,
     set |-> TRUE]

\* useState initialiser of coneLocal
InitialCone(state) ==
    [yaw |-> state.cone.yaw,
     pitch |-> IF state.cone.pitch > 0 THEN state.cone.pitch ELSE DefaultPitch,
     radius |-> state.cone.radius]

\* a subscribe effect that leaves coneLocal.pitch out of its dependencies
SubscribeDepsWithoutPitch(path, cone) == <<path>>

\* the dependencies of the effect that subscribes to the orientation store
SubscribeDeps(path, cone) == <<path, cone.pitch>>

\* Math.round of a product with a percentage, which the model counts in hundredths
Round(n) == (n + 50) \div 100

\* the body of the useMemo of scale, in thousandths
ScaleOf(outer, base) ==
    IF outer.w = 0 \/ outer.h = 0 THEN 1000
    ELSE Min((outer.w * 1000) \div base.w, (outer.h * 1000) \div base.h)

\* useMemo(..., [outerSize.w, outerSize.h]): the body runs again only if the
\* measured size is not the one it last ran for
MemoisedScale(memo, outer, base) ==
    IF memo.deps # outer THEN [deps |-> outer, value |-> ScaleOf(outer, base)]
    ELSE memo

\* One render of CustomMap followed by its effects in hook order; first is the
\* mounting render.  The result holds the new value of every part it touches.
RenderCommit(first, path, lst) ==
    LET state == StateForPath(pathToState, path)
        store1 == StoreAfterGet(pathToState, path)
        local0 == IF first THEN InitialCone(state) ELSE coneLocal
        \* seed effect, deps [baseWidth, baseHeight, state.points, pathname]
        seedDeps == <<imageSize, state.points, path>>
        seeds == /\ first \/ deps.seed # seedDeps
                 /\ imageSize.w # 0 /\ imageSize.h # 0
                 /\ Len(state.points) = 0
        \* const legacy = (state as any).point
        seed == IF "point" \in DOMAIN state
                THEN [x |-> Round(state.point.xPercent * imageSize.w),
                      y |-> Round(state.point.yPercent * imageSize.h)]
                ELSE [x |-> 0, y |-> imageSize.h]
        store2 == IF seeds
                  THEN setActivePointForPath(
                           setPointsForPath(store1, path, <<seed>>), path, 0)
                  ELSE store1
        \* effect [state.cone.yaw, state.cone.pitch, state.cone.radius]
        syncs == first \/ deps.cone # state.cone
        local1 == IF syncs THEN state.cone ELSE local0
        \* subscribe effect, deps [pathname, coneLocal.pitch]
        subDeps == SubscribeDeps(path, local0)
        resubs == first \/ deps.sub # subDeps
        subs1 == IF resubs /\ ~first
                 THEN Unsubscribed(positionSubscribers, subId)
                 ELSE positionSubscribers
        newId == FreshId(subs1)
        subs2 == IF resubs
                 THEN Subscribed(subs1, [id |-> newId, path |-> path,
                                         pitch |-> local0.pitch])
                 ELSE subs1
        \* storeYaw effect, deps [storeYaw, pathname]
        yawDeps == <<appYaw, path>>
        pulls == (first \/ deps.yawEff # yawDeps) /\ local1.yaw # appYaw
        local2 == IF pulls THEN [local1 EXCEPT !.yaw = appYaw] ELSE local1
        store3 == IF pulls
                  THEN setConeForPath(store2, path,
                           [yaw |-> appYaw, pitch |-> local1.pitch,
                            radius |-> local1.radius])
                  ELSE store2
    IN  [store |-> store3,
         local |-> local2,
         subs |-> subs2,
         subId |-> IF resubs THEN newId ELSE subId,
         ref |-> lst,
         hcc |-> IF first \/ hcc.path # path
                 THEN [path |-> path, listener |-> lst]
                 ELSE hcc,
         deps |-> [cone |-> state.cone, seed |-> seedDeps, sub |-> subDeps,
                   yawEff |-> yawDeps],
         again |-> syncs \/ pulls]

Committed(r) ==
    /\ pathToState' = r.store
    /\ coneLocal' = r.local
    /\ positionSubscribers' = r.subs
    /\ subId' = r.subId
    /\ listenerRef' = r.ref
    /\ hcc' = r.hcc
    /\ deps' = r.deps
    /\ needRender' = r.again

\* Events reach CustomMap once React has rendered the changes of the one before
Settled == ~needRender

Work == [local |-> coneLocal, store |-> pathToState, notes |-> <<>>,
         ref |-> listenerRef, commands |-> commands, set |-> FALSE]

Worked(w) ==
    /\ coneLocal' = w.local
    /\ pathToState' = w.store
    /\ commands' = w.commands
    /\ out' = w.notes

\* MapWrapper becomes visible: CustomMap mounts with the props the parent gives
Mount(k, l) ==
    /\ ~mounted
    /\ mounted' = TRUE
    /\ pathname' = k
    /\ listener' = l
    /\ imageSize' = FallbackImageSize
    /\ Committed(RenderCommit(TRUE, k, l))
    /\ renders' = 1
    /\ outerSize' = Unmeasured
    /\ scale' = Unscaled
    /\ last' = [op |-> "mount", had |-> StateForPath(pathToState, k).points,
                legacy |-> (k \in DOMAIN pathToState /\ "point" \in DOMAIN pathToState[k])]
    /\ out' = <<>>
    /\ UNCHANGED <<sliderVars, histVars, subVars,
                   popupVars, frameVars, screenVars, viewVars, ret, seen,
                   appYaw, appPitch, commands, ctlVars>>

\* MapWrapper hides the map: the effect cleanups run and the state is dropped
Unmount ==
    /\ mounted /\ Settled
    /\ mounted' = FALSE
    /\ positionSubscribers' = Unsubscribed(positionSubscribers, subId)
    /\ pathname' = "/a"
    /\ listener' = 0
    /\ listenerRef' = 0
    /\ imageSize' = FallbackImageSize
    /\ coneLocal' = defaultPathState.cone
    /\ hcc' = [path |-> "/a", listener |-> 0]
    /\ subId' = 0
    /\ deps' = NoDeps
    /\ needRender' = FALSE
    /\ renders' = 0
    /\ outerSize' = Unmeasured
    /\ scale' = Unscaled
    /\ last' = [op |-> "unmount"]
    /\ out' = <<>>
    /\ UNCHANGED <<sliderVars, histVars, subVars,
                   popupVars, frameVars, screenVars, viewVars, pathToState,
                   ret, seen, appYaw, appPitch, commands, ctlVars>>

\* React renders the pending change and runs the effects
Render ==
    /\ mounted /\ needRender
    /\ Committed(RenderCommit(FALSE, pathname, listener))
    /\ renders' = renders + 1
    /\ scale' = MemoisedScale(scale, outerSize, imageSize)
    /\ UNCHANGED <<sliderVars, histVars, subVars,
                   popupVars, frameVars, screenVars, viewVars, ret, seen,
                   appYaw, appPitch, commands, mounted, pathname, listener, imageSize,
                   outerSize, last, out, ctlVars>>

\* emit(yaw, pitch) of the orientation store
Emit(op, yaw, pitch) ==
    /\ Settled
    /\ appYaw' = yaw
    /\ appPitch' = pitch
    /\ Worked(ForEachSubscriber(positionSubscribers, yaw, Work))
    /\ needRender' = (mounted /\ (coneLocal' # coneLocal \/ yaw # appYaw \/ pitch # appPitch))
    /\ renders' = 0
    /\ last' = [op |-> op, yaw |-> yaw, pitch |-> pitch, heard |-> mounted,
                before |-> coneLocal, stored |-> RawOrDefault(pathToState, pathname),
                ref |-> listenerRef,
                afterPitchKey |-> (last.op = "cone" /\ last.next.pitch # last.stored.cone.pitch)]
    /\ userYaw' = NoUserYaw
    /\ UNCHANGED <<subVars, popupVars, frameVars, screenVars, sizeVars, sliderVars,
                   viewVars, ret, seen, positionSubscribers, mounted, pathname, listener,
                   listenerRef, imageSize, hcc, subId, deps, ctlVars>>

\* the viewer's 'position-updated' event
PositionUpdated(yaw, pitch) == Emit("emit", yaw, pitch)

\* the viewer's 'zoom-updated' event: the snapshot is emitted again
ZoomUpdated == Emit("emit", appYaw, appPitch)

\* usePathname() changes while CustomMap stays mounted
Navigate(k) ==
    /\ mounted /\ Settled /\ k # pathname
    /\ pathname' = k
    /\ needRender' = TRUE
    /\ renders' = 0
    /\ last' = [op |-> "navigate", had |-> StateForPath(pathToState, k).points,
                legacy |-> (k \in DOMAIN pathToState /\ "point" \in DOMAIN pathToState[k])]
    /\ out' = <<>>
    /\ UNCHANGED <<moreVars, viewVars, storeVars, appVars, mounted, listener, listenerRef, imageSize,
                   coneLocal, hcc, subId, deps, ctlVars>>

\* the parent renders CustomMap with another onPositionChange
SetListener(l) ==
    /\ mounted /\ Settled /\ l # listener
    /\ listener' = l
    /\ needRender' = TRUE
    /\ renders' = 0
    /\ last' = [op |-> "props"]
    /\ out' = <<>>
    /\ UNCHANGED <<moreVars, viewVars, storeVars, appVars, mounted, pathname, listenerRef, imageSize,
                   coneLocal, hcc, subId, deps, ctlVars>>

\* a key press on the overlay CustomMap renders: the controller's handleKeyDown
\* calls onConeChange, which is the handleConeChange of the last render
KeyDown(key) ==
    /\ mounted /\ Settled
    /\ KeyUpdates(key)
    /\ InWindow(handleKeyDown(coneLocal, key))
    /\ Worked(HandleConeChange(hcc, handleKeyDown(coneLocal, key), Work))
    /\ needRender' = TRUE
    /\ renders' = 0
    /\ last' = [op |-> "cone", next |-> handleKeyDown(coneLocal, key),
                stored |-> RawOrDefault(pathToState, pathname), to |-> listener]
    /\ userYaw' = IF handleKeyDown(coneLocal, key).yaw # coneLocal.yaw
                  THEN [userYaw EXCEPT ![hcc.path] =
                           [has |-> TRUE, yaw |-> handleKeyDown(coneLocal, key).yaw]]
                  ELSE userYaw
    /\ UNCHANGED <<subVars, popupVars, frameVars, screenVars, sizeVars, sliderVars,
                   viewVars, ret, seen, appYaw, appPitch, positionSubscribers, mounted, pathname,
                   listener, listenerRef, imageSize, hcc, subId, deps, ctlVars>>

\* img onLoad: setImageSize({ w: img.naturalWidth, h: img.naturalHeight })
ImageLoad ==
    /\ mounted /\ Settled
    /\ imageSize = FallbackImageSize
    /\ imageSize' = NaturalSize
    /\ needRender' = TRUE
    /\ renders' = 0
    /\ last' = [op |-> "load", had |-> last.had, legacy |-> last.legacy]
    /\ out' = <<>>
    /\ UNCHANGED <<moreVars, viewVars, storeVars, appVars, mounted, pathname, listener, listenerRef,
                   coneLocal, hcc, subId, deps, ctlVars>>

\* the ResizeObserver callback: setOuterSize({ w: cr.width, h: cr.height })
Resize(size) ==
    /\ mounted /\ Settled
    /\ size # outerSize
    /\ outerSize' = size
    /\ needRender' = TRUE
    /\ renders' = 0
    /\ last' = [op |-> "resize", had |-> last.had, legacy |-> last.legacy]
    /\ out' = <<>>
    /\ UNCHANGED <<sliderVars, histVars, subVars,
                   popupVars, frameVars, screenVars, scale, viewVars, storeVars,
                   appVars, mounted, pathname, listener, listenerRef, imageSize,
                   coneLocal, hcc, subId, deps, ctlVars>>

Init ==
    /\ pathToState \in InitStores
    /\ ret = Nothing
    /\ seen = NoSeen
    /\ last = NoOp
    /\ out = <<>>
    /\ Unmounted
    /\ AppCreated
    /\ NoSlider
    /\ NoOverlay

Next ==
    \/ \E k \in Keys, l \in Listeners : Mount(k, l)
    \/ Unmount
    \/ Render
    \/ \E y \in EmitYaws, p \in EmitPitches : PositionUpdated(y, p)
    \/ ZoomUpdated
    \/ \E k \in Keys : Navigate(k)
    \/ \E l \in Listeners : SetListener(l)
    \/ \E key \in KeyNames : KeyDown(key)

Spec == Init /\ [][Next]_vars

\* React always gets to render a pending change
SpecLive == Spec /\ WF_vars(Render)

----------------------------------------------------------------------------
(* CustomMap mounting on contexts with and without points *)

\* a legacy record: a percentage point (in hundredths) and no point list
LegacyState == [point |-> [xPercent |-> 50, yPercent |-> 25]]

\* the stores a run starts with: "/a" legacy or with two points, "/b" unknown or empty
SeedStores ==
    {[k \in {"/a"} |-> LegacyState],
     [k \in {"/a"} |-> [LegacyState EXCEPT !.point.xPercent = 100]],
     [k \in {"/a"} |->
         [points |-> <<[x |-> 40, y |-> 30], [x |-> 0, y |-> 0]>>, activePoint |-> 1,
          cone |-> [yaw |-> 0, pitch |-> DefaultPitch, radius |-> 100]]],
     [k \in {"/a", "/b"} |->
         IF k = "/a" THEN LegacyState ELSE defaultPathState]}

SeedInit ==
    /\ pathToState \in SeedStores
    /\ ret = Nothing
    /\ seen = NoSeen
    /\ last = NoOp
    /\ out = <<>>
    /\ Unmounted
    /\ AppCreated
    /\ NoSlider
    /\ NoOverlay

SeedNext ==
    \/ \E k \in Keys, l \in Listeners : Mount(k, l)
    \/ Unmount
    \/ Render
    \/ ImageLoad
    \/ \E k \in Keys : Navigate(k)

SpecSeed == SeedInit /\ [][SeedNext]_vars

----------------------------------------------------------------------------
(* Orientation store: the viewer handle, its event handlers and its loop *)

Containers == {1, 2}

\* orientations a viewer takes; a new Viewer has defaultYaw 0 and defaultPitch 0
Orientations == {[yaw |-> 0, pitch |-> 0], [yaw |-> 2, pitch |-> 10]}

\* the yaw and pitch setYawPitch is called with
CommandYaws == {2}

CommandPitches == {10}

\* a Viewer as setYawPitch sees it: whether it has animate, whether it has
\* rotate, and whether the method it is called on throws
Build(hasAnimate, hasRotate, throws) ==
    [animate |-> hasAnimate, rotate |-> hasRotate, throws |-> throws]

ViewerBuilds == {Build(a, r, t) : a \in BOOLEAN, r \in BOOLEAN, t \in BOOLEAN}

\* the builds the handle's life is followed with: one that animates, one whose
\* call throws, one with neither method
ViewerCalls == {Build(TRUE, TRUE, FALSE), Build(TRUE, TRUE, TRUE),
                Build(FALSE, FALSE, FALSE)}

NoCall == [method |-> "none", count |-> 0]

\* let lastYaw = Number.NaN; let lastPitch = Number.NaN
NeverPolled == [has |-> FALSE, yaw |-> 0, pitch |-> 0]

\* new Viewer({container, ...}) with its handlers wired and its loop requested.
\* on: the build exposes v.on; throws: its destroy throws before it notifies.
NewViewer(c, on, throws) ==
    [container |-> c, on |-> on, throws |-> throws, destroyCalled |-> FALSE,
     alive |-> TRUE, loop |-> TRUE, polled |-> NeverPolled, yaw |-> 0, pitch |-> 0]

\* try { viewer?.destroy(); } catch {}: a destroy that succeeds fires the
\* 'destroy' handler, which exists if v.on did, and that cancels the loop
Destroyed(v) ==
    IF v.throws THEN [v EXCEPT !.destroyCalled = TRUE]
    ELSE [v EXCEPT !.destroyCalled = TRUE, !.alive = FALSE,
                   !.loop = IF v.on THEN FALSE ELSE @]

\* an ensureViewer that tears down whatever handle it finds
StaleAlways(v, vc, c, conn) == v # 0

\* an ensureViewer without the containerDetached test
StaleIfChanged(v, vc, c, conn) == v # 0 /\ vc # 0 /\ vc # c

\* containerChanged || containerDetached
Stale(v, vc, c, conn) == v # 0 /\ vc # 0 /\ (vc # c \/ vc \notin conn)

\* ensureViewer({container: c}); w holds viewer, viewerContainer and the Viewers
ensureViewer(w, c, on, throws, conn) ==
    LET w1 == IF Stale(w.viewer, w.viewerContainer, c, conn)
              THEN [viewer |-> 0, viewerContainer |-> 0,
                    viewers |-> [w.viewers EXCEPT ![w.viewer] = Destroyed(@)]]
              ELSE w
    IN  IF w1.viewer # 0 THEN w1
        ELSE [viewer |-> Len(w1.viewers) + 1, viewerContainer |-> c,
              viewers |-> Append(w1.viewers, NewViewer(c, on, throws))]

Handle == [viewer |-> viewer, viewerContainer |-> viewerContainer, viewers |-> viewers]

\* what the orientation store holds and has sent before an operation
Snapshot == [viewer |-> viewer, viewerContainer |-> viewerContainer, viewers |-> viewers,
             yaw |-> appYaw, pitch |-> appPitch, out |-> out,
             subscribers |-> positionSubscribers]

\* TinyPlanet's effect, or any caller: ensureViewer({container: c})
EnsureViewer(c, on, throws) ==
    LET r == ensureViewer(Handle, c, on, throws, connected)
    IN  /\ commands < MaxCommands
        /\ viewer' = r.viewer
        /\ viewerContainer' = r.viewerContainer
        /\ viewers' = r.viewers
        /\ commands' = commands + 1
        /\ last' = [op |-> "ensure", container |-> c, before |-> Snapshot,
                    attached |-> viewerContainer \in connected]
        /\ UNCHANGED <<moreVars, connected, frameEmits, out, storeVars, bindVars, ctlVars,
                       appYaw, appPitch, positionSubscribers>>

\* emit(yaw, pitch) with no CustomMap subscribed: set({yaw, pitch}), and every
\* subscriber is called with the pair, which the log keeps
Emitted(w, yaw, pitch) ==
    [w EXCEPT !.yaw = yaw, !.pitch = pitch,
              !.log = Append(@, [yaw |-> yaw, pitch |-> pitch]),
              !.count = @ + 1]

\* a yaw ?? get().yaw of the snapshot that falls back to 0
SuppliedOrZero(has, value, current) == IF has THEN value ELSE 0

\* yaw ?? get().yaw
SuppliedOr(has, value, current) == IF has THEN value ELSE current

\* a setYawPitch that tries rotate before animate
viewerCallRotateFirst(animate, build, yaw, pitch) ==
    IF build.rotate
    THEN [method |-> "rotate", count |-> 1, yaw |-> yaw, pitch |-> pitch]
    ELSE IF animate /\ build.animate
         THEN [method |-> "animate", count |-> 1, yaw |-> yaw, pitch |-> pitch]
         ELSE NoCall

\* if (animate && v.animate) v.animate({...}) else if (v.rotate) v.rotate({...})
viewerCall(animate, build, yaw, pitch) ==
    IF animate /\ build.animate
    THEN [method |-> "animate", count |-> 1, yaw |-> yaw, pitch |-> pitch]
    ELSE IF build.rotate
         THEN [method |-> "rotate", count |-> 1, yaw |-> yaw, pitch |-> pitch]
         ELSE NoCall

\* setYawPitch({yaw, pitch, animate}); hy and hp tell whether yaw and pitch are
\* given. The try block makes the call, the catch swallows what it throws, and
\* the snapshot is set after it.
setYawPitch(w, hy, y, hp, p) ==
    IF w.viewer = 0 THEN w
    ELSE IF hy \/ hp
         THEN [w EXCEPT !.yaw = SuppliedOr(hy, y, w.yaw),
                        !.pitch = SuppliedOr(hp, p, w.pitch)]
         ELSE w

SetYawPitch(hy, y, hp, p, animate, build) ==
    LET r == setYawPitch([viewer |-> viewer, yaw |-> appYaw, pitch |-> appPitch],
                         hy, y, hp, p)
        call == IF viewer = 0 THEN NoCall
                ELSE viewerCall(animate, build, SuppliedOr(hy, y, appYaw),
                                SuppliedOr(hp, p, appPitch))
    IN  /\ commands < MaxCommands
        /\ appYaw' = r.yaw
        /\ appPitch' = r.pitch
        /\ commands' = commands + 1
        /\ last' = [op |-> "command", hy |-> hy, yaw |-> y, hp |-> hp, pitch |-> p,
                    how |-> IF viewer = 0 THEN "none"
                            ELSE IF call.count = 0 THEN "neither"
                            ELSE IF build.throws THEN "throws" ELSE call.method,
                    animate |-> animate, build |-> build, call |-> call,
                    before |-> [viewer |-> viewer, yaw |-> appYaw, pitch |-> appPitch,
                                out |-> out]]
        /\ UNCHANGED <<moreVars, viewVars, out, storeVars, bindVars, ctlVars, positionSubscribers>>

\* the user turns viewer i, the one on show; fires: the build dispatches
\* 'position-updated'
Rotate(i, o, fires) ==
    LET w == [yaw |-> appYaw, pitch |-> appPitch, log |-> <<>>, count |-> frameEmits]
        r == IF fires THEN Emitted(w, o.yaw, o.pitch) ELSE w
    IN  /\ i = viewer
        /\ viewers[i].alive
        /\ fires => viewers[i].on
        /\ o.yaw # viewers[i].yaw \/ o.pitch # viewers[i].pitch
        /\ r.count <= MaxLog
        /\ viewers' = [viewers EXCEPT ![i].yaw = o.yaw, ![i].pitch = o.pitch]
        /\ appYaw' = r.yaw
        /\ appPitch' = r.pitch
        /\ out' = r.log
        /\ frameEmits' = r.count
        /\ last' = [op |-> "rotate", fired |-> fires]
        /\ UNCHANGED <<moreVars, viewer, viewerContainer, connected, commands, positionSubscribers,
                       storeVars, bindVars, ctlVars>>

\* viewer i dispatches 'zoom-updated': emit(get().yaw ?? 0, get().pitch ?? 0)
ZoomEvent(i) ==
    LET r == Emitted([yaw |-> appYaw, pitch |-> appPitch, log |-> out,
                      count |-> frameEmits], appYaw, appPitch)
    IN  /\ i = viewer
        /\ viewers[i].alive /\ viewers[i].on
        /\ Len(r.log) <= MaxLog /\ r.count <= MaxLog
        /\ out' = r.log
        /\ frameEmits' = r.count
        /\ last' = [op |-> "zoom"]
        /\ UNCHANGED <<moreVars, viewer, viewerContainer, viewers, connected, appVars,
                       storeVars, bindVars, ctlVars>>

\* poll of the loop of viewer i
Poll(i, w) ==
    LET v == w.viewers[i]
    IN  IF ~v.loop THEN w
        ELSE IF ~v.polled.has \/ v.polled.yaw # v.yaw \/ v.polled.pitch # v.pitch
             THEN Emitted([w EXCEPT !.viewers[i].polled =
                              [has |-> TRUE, yaw |-> v.yaw, pitch |-> v.pitch]],
                          v.yaw, v.pitch)
             ELSE w

\* the requestAnimationFrame callbacks of one frame, in the order requested
RECURSIVE PollFrom(_, _)
PollFrom(i, w) ==
    IF i > Len(w.viewers) THEN w ELSE PollFrom(i + 1, Poll(i, w))

\* the browser starts an animation frame
AnimationFrame ==
    LET r == PollFrom(1, [viewers |-> viewers, yaw |-> appYaw, pitch |-> appPitch,
                          log |-> out, count |-> 0])
    IN  /\ Len(r.log) <= MaxLog
        /\ viewers' = r.viewers
        /\ appYaw' = r.yaw
        /\ appPitch' = r.pitch
        /\ out' = r.log
        /\ frameEmits' = r.count
        /\ last' = [op |-> "frame"]
        /\ UNCHANGED <<moreVars, viewer, viewerContainer, connected, commands, positionSubscribers,
                       storeVars, bindVars, ctlVars>>

\* container c is put into the document, or taken out of it
Attach(c) ==
    /\ c \notin connected
    /\ connected' = connected \cup {c}
    /\ last' = [op |-> "attach"]
    /\ UNCHANGED <<moreVars, viewer, viewerContainer, viewers, frameEmits, out, appVars,
                   storeVars, bindVars, ctlVars>>

Detach(c) ==
    /\ c \in connected
    /\ connected' = connected \ {c}
    /\ last' = [op |-> "detach"]
    /\ UNCHANGED <<moreVars, viewer, viewerContainer, viewers, frameEmits, out, appVars,
                   storeVars, bindVars, ctlVars>>

ViewerInit ==
    /\ pathToState = <<>>
    /\ ret = Nothing
    /\ seen = NoSeen
    /\ last = NoOp
    /\ out = <<>>
    /\ Unmounted
    /\ AppCreated
    /\ NoSlider
    /\ NoOverlay

\* the handle's life: calls of the store, animation frames, containers coming and going
ViewerNext ==
    \/ \E c \in Containers, on \in BOOLEAN, throws \in BOOLEAN : EnsureViewer(c, on, throws)
    \/ \E hy \in BOOLEAN, y \in CommandYaws, hp \in BOOLEAN, p \in CommandPitches,
          build \in ViewerCalls : SetYawPitch(hy, y, hp, p, TRUE, build)
    \/ AnimationFrame
    \/ \E c \in Containers : Attach(c)
    \/ \E c \in Containers : Detach(c)

SpecViewer == ViewerInit /\ [][ViewerNext]_vars

\* what reaches the subscribers: the handle's life with the user turning and
\* zooming the viewer on show; setYawPitch calls no subscriber and is left out
FeedNext ==
    \/ \E c \in Containers, on \in BOOLEAN, throws \in BOOLEAN :
          commands < MaxFeedCommands /\ EnsureViewer(c, on, throws)
    \/ AnimationFrame
    \/ \E c \in Containers : Attach(c)
    \/ \E c \in Containers : Detach(c)
    \/ \E i \in 1..MaxCommands, o \in Orientations, fires \in BOOLEAN : Rotate(i, o, fires)
    \/ \E i \in 1..MaxCommands : ZoomEvent(i)

SpecFeed == ViewerInit /\ [][FeedNext]_vars

\* setYawPitch with every build of the viewer, animated or not
CommandNext ==
    \/ \E c \in Containers, on \in BOOLEAN, throws \in BOOLEAN :
          commands < MaxFeedCommands /\ EnsureViewer(c, on, throws)
    \/ \E hy \in BOOLEAN, y \in CommandYaws, hp \in BOOLEAN, p \in CommandPitches,
          animate \in BOOLEAN, build \in ViewerBuilds :
          SetYawPitch(hy, y, hp, p, animate, build)

SpecCommand == ViewerInit /\ [][CommandNext]_vars

----------------------------------------------------------------------------
(* Orientation store: the clients of subscribePosition *)

\* the functions the clients pass to subscribePosition, by identity
Callbacks == {1, 2}

Callback(f) == [id |-> f]

\* positionSubscribers.forEach(fn => fn({yaw, pitch})): the calls made, in order
ForEachCalled(subs, yaw, pitch) ==
    [j \in 1..Len(subs) |-> [cb |-> subs[j].id, yaw |-> yaw, pitch |-> pitch]]

\* subscribePosition(cb) with the function f; what it returns is kept by the client
SubscribePosition(f) ==
    /\ Len(subscriptions) < MaxSubscriptions
    /\ positionSubscribers' = Subscribed(positionSubscribers, Callback(f))
    /\ subscriptions' = Append(subscriptions, [cb |-> f, live |-> TRUE])
    /\ last' = [op |-> "subscribe", cb |-> f]
    /\ out' = <<>>
    /\ UNCHANGED <<sliderVars, histVars,
                   popupVars, frameVars, screenVars, sizeVars, viewVars, storeVars,
                   bindVars, ctlVars, appYaw, appPitch, commands>>

\* the client calls the unsubscribe action its n-th subscribePosition returned:
\* () => positionSubscribers.delete(cb)
Unsubscribe(n) ==
    /\ n \in 1..Len(subscriptions)
    /\ subscriptions[n].live
    /\ positionSubscribers' = Unsubscribed(positionSubscribers, subscriptions[n].cb)
    /\ subscriptions' = [subscriptions EXCEPT ![n].live = FALSE]
    /\ last' = [op |-> "unsubscribe", n |-> n]
    /\ out' = <<>>
    /\ UNCHANGED <<sliderVars, histVars,
                   popupVars, frameVars, screenVars, sizeVars, viewVars, storeVars,
                   bindVars, ctlVars, appYaw, appPitch, commands>>

\* emit(yaw, pitch) with these clients subscribed
EmitToClients(yaw, pitch) ==
    /\ appYaw' = yaw
    /\ appPitch' = pitch
    /\ out' = ForEachCalled(positionSubscribers, yaw, pitch)
    /\ last' = [op |-> "emit", yaw |-> yaw, pitch |-> pitch]
    /\ UNCHANGED <<moreVars, viewVars, storeVars, bindVars, ctlVars,
                   positionSubscribers, commands>>

ClientsNext ==
    \/ \E f \in Callbacks : SubscribePosition(f)
    \/ \E n \in 1..MaxSubscriptions : Unsubscribe(n)
    \/ \E yaw \in EmitYaws, pitch \in EmitPitches : EmitToClients(yaw, pitch)

SpecClients == ViewerInit /\ [][ClientsNext]_vars

----------------------------------------------------------------------------
(* Geometry helpers: polarToCartesian and sectorPath *)

SectorYaws == {0, 158}

\* apertures: negative, none, narrow, the default, either side of Math.PI, and
\* just short of the full turn
SectorPitches == {-4, 0, 2, 104, 314, 316, 626}

SectorCentres == {[x |-> 0, y |-> 0], [x |-> 100, y |-> 80]}

SectorRadii == {50, 100}

\* Math.cos and Math.sin of the angles drawn, in thousandths
Cos ==
    -313 :> -1000 @@ -158 :> -9 @@ -157 :> 1 @@ -155 :> 21 @@ -52 :> 868 @@
    -2 :> 1000 @@ -1 :> 1000 @@ 0 :> 1000 @@ 1 :> 1000 @@ 2 :> 1000 @@
    52 :> 868 @@ 106 :> 489 @@ 156 :> 11 @@ 157 :> 1 @@ 158 :> -9 @@
    159 :> -19 @@ 160 :> -29 @@ 210 :> -505 @@ 313 :> -1000 @@
    315 :> -1000 @@ 316 :> -1000 @@ 471 :> -2

Sin ==
    -313 :> -12 @@ -158 :> -1000 @@ -157 :> -1000 @@ -155 :> -1000 @@
    -52 :> -497 @@ -2 :> -20 @@ -1 :> -10 @@ 0 :> 0 @@ 1 :> 10 @@ 2 :> 20 @@
    52 :> 497 @@ 106 :> 872 @@ 156 :> 1000 @@ 157 :> 1000 @@ 158 :> 1000 @@
    159 :> 1000 @@ 160 :> 1000 @@ 210 :> 863 @@ 313 :> 12 @@ 315 :> -8 @@
    316 :> -18 @@ 471 :> -1000

\* coordinates and radii are kept in thousandths of a pixel
Pixels(n) == n * 1000

polarToCartesian(cx, cy, r, angleRad) ==
    [x |-> cx + (r * Cos[angleRad]) \div 1000, y |-> cy + (r * Sin[angleRad]) \div 1000]

MoveTo(cx, cy) == [c |-> "M", x |-> cx, y |-> cy]

LineTo(pt) == [c |-> "L", x |-> pt.x, y |-> pt.y]

ArcTo(r, largeArcFlag, sweepFlag, pt) ==
    [c |-> "A", rx |-> r, ry |-> r, rotation |-> 0, largeArcFlag |-> largeArcFlag,
     sweepFlag |-> sweepFlag, x |-> pt.x, y |-> pt.y]

ClosePath == [c |-> "Z"]

\* sectorPath of sectorPath.ts: the path's commands, in the order of the string
sectorPath(cx, cy, r, yaw, pitch) ==
    IF pitch <= 0 THEN <<MoveTo(cx, cy)>>
    ELSE LET startAngle == yaw - pitch \div 2
             endAngle == yaw + pitch \div 2
             start == polarToCartesian(cx, cy, r, startAngle)
             end == polarToCartesian(cx, cy, r, endAngle)
             largeArcFlag == IF pitch > Pi THEN 1 ELSE 0
         IN  <<MoveTo(cx, cy), LineTo(start), ArcTo(r, largeArcFlag, 1, end), ClosePath>>

\* sectorPath of the copy in part_001, which has no test of the pitch
sectorPath2(cx, cy, r, yaw, pitch) ==
    LET half == pitch \div 2
        startAngle == yaw - half
        endAngle == yaw + half
        start == polarToCartesian(cx, cy, r, startAngle)
        end == polarToCartesian(cx, cy, r, endAngle)
        largeArcFlag == IF pitch > Pi THEN 1 ELSE 0
        sweepFlag == 1
    IN  <<MoveTo(cx, cy), LineTo(start), ArcTo(r, largeArcFlag, sweepFlag, end), ClosePath>>

SectorCopies == {"sectorPath.ts", "part_001"}

\* a caller draws a sector with one of the two copies
DrawSector(copy, centre, r, yaw, pitch) ==
    /\ out' = IF copy = "sectorPath.ts"
              THEN sectorPath(Pixels(centre.x), Pixels(centre.y), Pixels(r), yaw, pitch)
              ELSE sectorPath2(Pixels(centre.x), Pixels(centre.y), Pixels(r), yaw, pitch)
    /\ last' = [op |-> "sector", copy |-> copy, cx |-> Pixels(centre.x),
                cy |-> Pixels(centre.y), r |-> Pixels(r), yaw |-> yaw, pitch |-> pitch]
    /\ UNCHANGED <<moreVars, viewVars, storeVars, appVars, bindVars, ctlVars>>

SectorNext ==
    \E copy \in SectorCopies, centre \in SectorCentres, r \in SectorRadii,
       yaw \in SectorYaws, pitch \in SectorPitches : DrawSector(copy, centre, r, yaw, pitch)

SpecSector == StoreInit /\ [][SectorNext]_vars

----------------------------------------------------------------------------
(* CustomMap's layout, and what it renders MapWithCone with *)

\* the sizes the ResizeObserver reports for the outer container
OuterSizes == {[w |-> 300, h |-> 180], [w |-> 1050, h |-> 720]}

\* offsetX and offsetY, in thousandths of a pixel
Offsets ==
    [x |-> (Pixels(outerSize.w) - imageSize.w * scale.value) \div 2,
     y |-> (Pixels(outerSize.h) - imageSize.h * scale.value) \div 2]

\* pointsGrid: state.points, or the legacy point, or none
PointsGrid(state, base) ==
    IF Len(state.points) > 0 THEN state.points
    ELSE IF "point" \in DOMAIN state
         THEN <<[x |-> Round(state.point.xPercent * base.w),
                 y |-> Round(state.point.yPercent * base.h)]>>
         ELSE <<>>

\* scaledPoints, in thousandths of a pixel
ScaledPoints(pointsGrid, sc) ==
    [j \in 1..Len(pointsGrid) |-> [x |-> pointsGrid[j].x * sc, y |-> pointsGrid[j].y * sc]]

\* an activeIdx that passes the stored index on as it is
ActiveIdxAsStored(state, pointsGrid) == state.activePoint

\* activeIdx
ActiveIdx(state, pointsGrid) ==
    LET idx == IF state.activePoint \in Int THEN state.activePoint ELSE 0
    IN  Min(Max(idx, 0), Max(0, Len(pointsGrid) - 1))

\* cone={coneLocal}: the radius is passed on as it is, the number stored taken
\* as pixels
AsGiven(cone) ==
    IF cone.radius = NoRadius THEN cone ELSE [cone EXCEPT !.radius = Pixels(@)]

\* the props CustomMap renders MapWithCone with, lengths in thousandths of a pixel
MapWithConeProps ==
    LET state == StateForPath(pathToState, pathname)
        pointsGrid == PointsGrid(state, imageSize)
    IN  [points |-> ScaledPoints(pointsGrid, scale.value),
         width |-> imageSize.w * scale.value,
         height |-> imageSize.h * scale.value,
         cone |-> AsGiven(coneLocal),
         coneOriginIndex |-> ActiveIdx(state, pointsGrid),
         interactive |-> TRUE,
         onConeChange |-> TRUE,
         onSelectOrigin |-> FALSE,
         originHandleRadius |-> Pixels(HandleRadius)]

\* cone.radius ?? Math.min(width, height) * 0.6
Radius(pr) ==
    IF pr.cone.radius = NoRadius THEN (Min(pr.width, pr.height) * 6) \div 10
    ELSE pr.cone.radius

\* conePath of MapWithCone
ConePath(pr) ==
    sectorPath(Origin(pr).x, Origin(pr).y, Radius(pr), pr.cone.yaw, pr.cone.pitch)

\* the stores a run starts with: nothing, or "/a" with the bottom-left point of the
\* 525x360 base and a cone of radius 100
LayoutStores ==
    {<<>>,
     [k \in {"/a"} |->
         [points |-> <<[x |-> 0, y |-> 360]>>, activePoint |-> 0,
          cone |-> [yaw |-> 0, pitch |-> DefaultPitch, radius |-> 100]]]}

LayoutInit ==
    /\ pathToState \in LayoutStores
    /\ ret = Nothing
    /\ seen = NoSeen
    /\ last = NoOp
    /\ out = <<>>
    /\ Unmounted
    /\ AppCreated
    /\ NoSlider
    /\ NoOverlay

LayoutNext ==
    \/ \E k \in Keys, l \in Listeners : Mount(k, l)
    \/ Unmount
    \/ Render
    \/ ImageLoad
    \/ \E size \in OuterSizes : Resize(size)

SpecLayout == LayoutInit /\ [][LayoutNext]_vars

----------------------------------------------------------------------------
(* BeforeAfterSlider *)

\* a clamp that returns the value as it is
clampNothing(v, min, max) == v

\* Math.max(min, Math.min(max, v))
clamp(v, min, max) == Max(min, Min(max, v))

\* rect.width of the container: positive
SliderWidths == {200, 400}

\* clientX - rect.left: left of the container, inside it, right of it
SliderSpots == {-30, 0, 37, 200, 260, 430}

SliderKeys == {"ArrowLeft", "ArrowRight", "Home", "End", "Enter"}

\* initialPercent, in hundredths of a percent
InitialPercents == {-2000, DefaultPercent, 15000}

\* the percent updateFromClientX sets: clamp((x / rect.width) * 100, 0, 100)
updateFromClientX(x, width) == clamp((x * PercentMax) \div width, 0, PercentMax)

\* whether a pointer is down: the last of the pointer-downs and pointer-ups so
\* far was a pointer-down (history)
Held == "held" \in DOMAIN last /\ last.held

SliderBefore == [percent |-> percent, dragging |-> dragging, held |-> Held]

SliderDone(op, held) ==
    /\ last' = [op |-> op, held |-> held, before |-> SliderBefore]
    /\ out' = <<>>
    /\ UNCHANGED <<subVars, popupVars, frameVars, screenVars, sizeVars, histVars,
                   viewVars, storeVars, appVars, bindVars, ctlVars>>

onPointerDown(x, width) ==
    /\ dragging' = TRUE
    /\ percent' = updateFromClientX(x, width)
    /\ SliderDone("sliderdown", TRUE)

onPointerMove(x, width) ==
    /\ percent' = IF dragging THEN updateFromClientX(x, width) ELSE percent
    /\ UNCHANGED dragging
    /\ SliderDone("slidermove", Held)

onPointerUp ==
    /\ dragging' = FALSE
    /\ UNCHANGED percent
    /\ SliderDone("sliderup", FALSE)

onHandleKeyDown(key, shiftKey) ==
    LET step == IF shiftKey THEN SliderShiftStep ELSE SliderStep
    IN  /\ percent' = CASE key = "ArrowLeft" -> clamp(percent - step, 0, PercentMax)
                        [] key = "ArrowRight" -> clamp(percent + step, 0, PercentMax)
                        [] key = "Home" -> 0
                        [] key = "End" -> PercentMax
                        [] OTHER -> percent
        /\ UNCHANGED dragging
        /\ SliderDone("sliderkey", Held)

SliderInit ==
    /\ pathToState = <<>>
    /\ ret = Nothing
    /\ seen = NoSeen
    /\ last = NoOp
    /\ out = <<>>
    /\ Unmounted
    /\ AppCreated
    /\ NoOverlay
    /\ \E initialPercent \in InitialPercents :
           percent = clamp(initialPercent, 0, PercentMax)
    /\ dragging = FALSE

SliderNext ==
    \/ \E x \in SliderSpots, w \in SliderWidths : onPointerDown(x, w)
    \/ \E x \in SliderSpots, w \in SliderWidths : onPointerMove(x, w)
    \/ onPointerUp
    \/ \E key \in SliderKeys, shiftKey \in BOOLEAN : onHandleKeyDown(key, shiftKey)

SpecSlider == SliderInit /\ [][SliderNext]_vars

----------------------------------------------------------------------------
(* Pointer events on the overlay CustomMap renders *)

\* the props in whole pixels, as the pointer handlers compare distances
InPixels(pr) ==
    [pr EXCEPT !.points = [j \in 1..Len(pr.points) |->
                              [x |-> pr.points[j].x \div 1000,
                               y |-> pr.points[j].y \div 1000]],
               !.width = @ \div 1000,
               !.height = @ \div 1000,
               !.originHandleRadius = @ \div 1000]

\* where the pointer goes down on the map: on the first point, near the second,
\* on the third, far from all
MapSpots ==
    {[x |-> 40, y |-> 30], [x |-> 210, y |-> 300], [x |-> 400, y |-> 100],
     [x |-> 300, y |-> 200]}

\* a pointer-down on the overlay CustomMap renders: the controller's
\* handlePointerDown with the props of the last render, none of which is an
\* onSelectOrigin
MapPointerDown(id, at) ==
    LET pr == InPixels(MapWithConeProps)
        st == handlePointerDown(pr, Overlay, PointerEvent(id, at))
    IN  /\ mounted /\ Settled
        /\ Handled(st)
        /\ last' = [op |-> "pick", e |-> PointerEvent(id, at),
                    picked |-> Picked(pr.points, at.x, at.y, pr.originHandleRadius),
                    origin |-> Origin(pr),
                    stored |-> StateForPath(pathToState, pathname)]
        /\ UNCHANGED <<moreVars, viewVars, storeVars, appVars, bindVars, props>>

\* the stores a run starts with: "/a" with three points, the first or the last
\* of them active
PickStores ==
    {[k \in {"/a"} |->
         [points |-> <<[x |-> 40, y |-> 30], [x |-> 200, y |-> 300],
                       [x |-> 400, y |-> 100]>>,
          activePoint |-> i,
          cone |-> [yaw |-> 0, pitch |-> DefaultPitch, radius |-> 100]]] : i \in {0, 2}}

PickInit ==
    /\ pathToState \in PickStores
    /\ ret = Nothing
    /\ seen = NoSeen
    /\ last = NoOp
    /\ out = <<>>
    /\ Unmounted
    /\ AppCreated
    /\ NoSlider
    /\ NoOverlay

PickNext ==
    \/ \E k \in Keys, l \in Listeners : Mount(k, l)
    \/ Unmount
    \/ Render
    \/ \E id \in PointerIds, at \in MapSpots : MapPointerDown(id, at)
    \/ \E key \in KeyNames : KeyDown(key)

SpecPick == PickInit /\ [][PickNext]_vars

\* the indices other code writes as activePoint: negative, valid, too large
ActivePoints == {-1, 0, 1, 5}

\* the stores a run starts with: "/a" with three points and a valid index, with
\* three points and no activePoint, with the legacy point, and nothing
OriginStores ==
    PickStores \cup
    {[k \in {"/a"} |->
         [points |-> <<[x |-> 40, y |-> 30], [x |-> 200, y |-> 300],
                       [x |-> 400, y |-> 100]>>]],
     [k \in {"/a"} |-> LegacyState],
     <<>>}

OriginInit ==
    /\ pathToState \in OriginStores
    /\ ret = Nothing
    /\ seen = NoSeen
    /\ last = NoOp
    /\ out = <<>>
    /\ Unmounted
    /\ AppCreated
    /\ NoSlider
    /\ NoOverlay

\* the store is written while CustomMap is not shown, and read when it mounts
OriginNext ==
    \/ \E k \in Keys, l \in Listeners : Mount(k, l)
    \/ Unmount
    \/ Render
    \/ \E k \in Keys, i \in ActivePoints : ~mounted /\ SetActivePointForPath(k, i)
    \/ \E k \in Keys, pts \in PointSeqs : ~mounted /\ SetPointsForPath(k, pts)

SpecOrigin == OriginInit /\ [][OriginNext]_vars

----------------------------------------------------------------------------
(* C1: when the orientation store emits a yaw equal to the yaw of the      *)
(* binding's local cone, the binding neither writes the cone to the map    *)
(* store nor notifies the position-change listener.                        *)
C1_EqualYawNoCycle ==
    (last.op = "emit" /\ last.heard /\ last.yaw = last.before.yaw) =>
        /\ RawOrDefault(pathToState, pathname) = last.stored
        /\ out = <<>>

(* C2: handling an orientation emission never commands the orientation     *)
(* store (neither in the subscriber callback nor in the renders that       *)
(* follow), the renders leave the orientation snapshot alone, and after an *)
(* emission CustomMap settles after finitely many renders.                 *)
C2_NoFeedbackLoop ==
    /\ [][(last'.op = "emit" \/ renders' > renders) => commands' = commands]_vars
    /\ [][renders' > renders =>
            appYaw' = appYaw /\ appPitch' = appPitch /\ out' = out]_vars
    /\ (last.op = "emit" /\ needRender) ~> (last.op = "emit" /\ ~needRender)

C2_Witness ==
    /\ last.op = "emit" /\ last.heard /\ last.yaw # last.before.yaw
    /\ ~needRender /\ renders = 2

(* C3: when the orientation store emits a yaw different from the local     *)
(* cone's, the local cone takes the emitted yaw, {yaw: emitted, pitch and  *)
(* radius as before} is stored under the current context key, and the      *)
(* listener is called once with the new yaw and the pitch the local cone    *)
(* has at that moment, also right after a key press changed the pitch.     *)
C3_GenuineYawChange ==
    (last.op = "emit" /\ last.heard /\ last.yaw # last.before.yaw) =>
        /\ coneLocal = [last.before EXCEPT !.yaw = last.yaw]
        /\ pathname \in DOMAIN pathToState
        /\ pathToState[pathname] = [last.stored EXCEPT !.cone =
               [yaw |-> last.yaw, pitch |-> last.before.pitch,
                radius |-> last.before.radius]]
        /\ out = IF last.ref # 0
                 THEN <<Position(last.ref, last.yaw, last.before.pitch)>>
                 ELSE <<>>

C3_Witness ==
    /\ last.op = "emit" /\ last.heard /\ last.yaw # last.before.yaw
    /\ last.afterPitchKey /\ last.ref # 0
    /\ out = <<Position(last.ref, last.yaw, coneLocal.pitch)>>
    /\ coneLocal.pitch # DefaultPitch
    /\ ~needRender

(* C4: every cone change the controller emits is forwarded: afterwards the *)
(* cone stored for the current context key is the emitted cone, the        *)
(* context's points and activePoint are as before, and the position-change *)
(* listener has been called exactly once, with the cone's (yaw, pitch).    *)
C4_ConeChangeForwarded ==
    last.op = "cone" =>
        /\ pathname \in DOMAIN pathToState
        /\ pathToState[pathname] = [last.stored EXCEPT !.cone = last.next]
        /\ out = IF last.to # 0
                 THEN <<Position(last.to, last.next.yaw, last.next.pitch)>>
                 ELSE <<>>

(* What the pointer-down of the last step could pick: the points within   *)
(* originHandleRadius of the pointer, by index.                            *)
InReach ==
    {i \in 0..(Len(props.points) - 1) :
        Dist2(last.e.x, last.e.y, props.points[i + 1])
            <= props.originHandleRadius * props.originHandleRadius}

Reach(i) == Dist2(last.e.x, last.e.y, props.points[i + 1])

OnOrigin ==
    Dist2(last.e.x, last.e.y, Origin(props))
        <= props.originHandleRadius * props.originHandleRadius

(* C5: on pointer-down in an interactive overlay with a point within       *)
(* originHandleRadius of the pointer, the picked index is a point of least *)
(* distance among those within the radius, and the lowest index among the  *)
(* points at that least distance.                                          *)
C5_NearestPointPicked ==
    (/\ last.op = "down" /\ props.variant = "picking"
     /\ props.interactive /\ props.onSelectOrigin /\ InReach # {}) =>
        \E i \in InReach :
            /\ out = <<SelectOrigin(i)>>
            /\ \A j \in InReach : Reach(i) <= Reach(j)
            /\ \A j \in InReach : Reach(j) = Reach(i) => i <= j

C5_Witness ==
    /\ last.op = "down" /\ props.variant = "picking"
    /\ props.interactive /\ props.onSelectOrigin
    /\ InReach = {0, 1} /\ Reach(1) < Reach(0)
    /\ out = <<SelectOrigin(1)>>

(* C6: a pointer-down that picks a point calls onSelectOrigin exactly once,*)
(* with the picked index, and ends there: isDragging and the captured      *)
(* pointers are as before, so an idle overlay stays idle.                  *)
C6_PickEndsGesture ==
    (/\ last.op = "down" /\ props.variant = "picking"
     /\ props.interactive /\ InReach # {}) =>
        /\ isDragging = last.before.was
        /\ captured = last.before.held
        /\ props.onSelectOrigin => Len(out) = 1 /\ out[1].kind = "select"
                                   /\ out[1].index \in InReach
        /\ ~props.onSelectOrigin => out = <<>>

C6_Witness ==
    /\ last.op = "down" /\ props.variant = "picking"
    /\ props.interactive /\ props.onSelectOrigin
    /\ InReach # {} /\ OnOrigin
    /\ ~last.before.was /\ ~isDragging /\ captured = {}
    /\ Len(out) = 1

(* C7: a pointer-down in an interactive overlay that picks no point starts *)
(* Dragging and captures the pointer when it lies within                   *)
(* originHandleRadius of the active origin, and changes nothing when it    *)
(* lies farther away.                                                      *)
C7_DragStartsOnOrigin ==
    (/\ last.op = "down" /\ props.interactive
     /\ props.variant = "picking" => InReach = {}) =>
        IF OnOrigin
        THEN /\ isDragging
             /\ captured = last.before.held \cup {last.e.pointerId}
        ELSE /\ isDragging = last.before.was
             /\ captured = last.before.held

C7_Witness ==
    /\ last.op = "down" /\ props.variant = "picking" /\ props.interactive
    /\ props.points # <<>> /\ InReach = {} /\ OnOrigin
    /\ ~last.before.was /\ isDragging /\ captured = {last.e.pointerId}

(* C8: pointer-up while Dragging sets isDragging to false and releases the *)
(* capture of the pointer; pointer-up while not Dragging changes nothing.  *)
C8_PointerUp ==
    last.op = "up" =>
        /\ ~isDragging
        /\ captured = IF last.before.was
                      THEN last.before.held \ {last.e.pointerId}
                      ELSE last.before.held
        /\ props.cone = last.before.cone
        /\ out = <<>>

C8_Witness ==
    /\ last.op = "up" /\ last.before.was
    /\ last.before.held = {last.e.pointerId}
    /\ ~isDragging /\ captured = {}

(* C9: from a pitch in [0, 1.8 pi], ArrowUp adds the step and stops at    *)
(* exactly 1.8 pi, ArrowDown subtracts it and stops at exactly 0, neither  *)
(* changes yaw or radius, and so the pitch stays in [0, 1.8 pi]; in both   *)
(* copies of the controller.                                               *)
C9_PitchClamped ==
    /\ props.variant # "none" => props.cone.pitch >= 0 /\ props.cone.pitch <= PitchMax
    /\ (/\ last.op = "key" /\ last.key \in {"ArrowUp", "ArrowDown"}
        /\ props.interactive /\ props.onConeChange) =>
           LET p == last.before.cone.pitch
               q == IF last.key = "ArrowUp"
                    THEN (IF p + KeyStep > PitchMax THEN PitchMax ELSE p + KeyStep)
                    ELSE (IF p - KeyStep < 0 THEN 0 ELSE p - KeyStep)
           IN  /\ out = <<ConeChanged([last.before.cone EXCEPT !.pitch = q])>>
               /\ props.cone = [last.before.cone EXCEPT !.pitch = q]

C9_Witness ==
    /\ last.op = "key" /\ last.key = "ArrowUp" /\ props.variant = "plain"
    /\ last.before.cone.pitch = PitchMax - 1
    /\ props.cone.pitch = PitchMax
    /\ out = <<ConeChanged(props.cone)>>

----------------------------------------------------------------------------
(* C10: getStateForPath on an unknown key stores and returns the default  *)
(* state; every further getStateForPath on that key with no write in      *)
(* between returns a state equal to the first result and leaves the store *)
(* unchanged.                                                             *)
C10_GetOrCreateStable ==
    [][\A k \in Keys :
        (last'.op = "get" /\ last'.key = k) =>
            /\ (k \notin DOMAIN pathToState) =>
                   /\ ret' = Returned(defaultPathState)
                   /\ k \in DOMAIN pathToState'
                   /\ pathToState'[k] = defaultPathState
                   /\ \A j \in DOMAIN pathToState : pathToState'[j] = pathToState[j]
            /\ seen[k].has =>
                   /\ ret' = seen[k]
                   /\ pathToState' = pathToState]_vars

C10_Witness ==
    /\ last.op = "get" /\ last.known /\ last.again
    /\ seen[last.key].has /\ ret = seen[last.key]
    /\ ret.state # defaultPathState

----------------------------------------------------------------------------
\* the state a setter on key k merges into: the stored one, or the default
StoredOrDefault(k) ==
    IF k \in DOMAIN pathToState THEN pathToState[k]
    ELSE [points |-> <<>>, activePoint |-> 0,
          cone |-> [yaw |-> 0, pitch |-> DefaultPitch, radius |-> NoRadius]]

(* C11: each of setPointsForPath, setPointAtIndexForPath,                 *)
(* setActivePointForPath and setConeForPath puts its argument into its    *)
(* own field of the key's state and leaves the other two fields, and all  *)
(* other keys, as they were; on a key with no state the other fields are  *)
(* those of the default state.                                            *)
C11_SettersPreserveRest ==
    [][\A k \in Keys :
        (last'.op = "set" /\ last'.key = k) =>
            /\ DOMAIN pathToState' = DOMAIN pathToState \cup {k}
            /\ \A j \in DOMAIN pathToState \ {k} : pathToState'[j] = pathToState[j]
            /\ last'.what # "cone" => pathToState'[k].cone = StoredOrDefault(k).cone
            /\ last'.what \notin {"points", "point"} =>
                   pathToState'[k].points = StoredOrDefault(k).points
            /\ last'.what # "active" =>
                   pathToState'[k].activePoint = StoredOrDefault(k).activePoint
            /\ last'.what = "cone" => pathToState'[k].cone = last'.value
            /\ last'.what = "points" => pathToState'[k].points = last'.value
            /\ last'.what = "active" => pathToState'[k].activePoint = last'.value
            /\ last'.what = "point" =>
                   pathToState'[k].points[last'.index + 1] = last'.value]_vars

C11_Witness ==
    /\ last.op = "set" /\ last.what = "cone" /\ last.known
    /\ pathToState[last.key].cone = last.value
    /\ pathToState[last.key].points # <<>>
    /\ pathToState[last.key].activePoint # 0

(* C12: setPointAtIndexForPath(key, index, p) leaves a point list of      *)
(* length max(previous length, index + 1) with p at index, the earlier    *)
(* points at every other position that existed, and (0, 0) at every new   *)
(* position below index.                                                  *)
C12_SetPointAtPads ==
    [][\A k \in Keys :
        (last'.op = "set" /\ last'.key = k /\ last'.what = "point") =>
            LET old == StoredOrDefault(k).points
                new == pathToState'[k].points
                index == last'.index
            IN  /\ Len(new) = IF Len(old) > index + 1 THEN Len(old) ELSE index + 1
                /\ new[index + 1] = last'.value
                /\ \A i \in 1..Len(old) : i # index + 1 => new[i] = old[i]
                /\ \A i \in (Len(old) + 1)..index : new[i] = [x |-> 0, y |-> 0]]_vars

C12_Witness ==
    /\ last.op = "set" /\ last.what = "point" /\ last.index = 1 /\ ~last.known
    /\ pathToState[last.key].points = <<[x |-> 0, y |-> 0], last.value>>

(* C13: in every stored context state with a non-empty point list,        *)
(* activePoint is an index into that list.                                *)
C13_ActivePointValid ==
    \A k \in DOMAIN pathToState :
        pathToState[k].points # <<>> =>
            /\ pathToState[k].activePoint >= 0
            /\ pathToState[k].activePoint < Len(pathToState[k].points)

----------------------------------------------------------------------------
\* the record stored for the context CustomMap shows
Shown == pathToState[pathname]

(* C14: once CustomMap has mounted on a context whose stored record is the *)
(* legacy form and has settled, the record holds exactly one point,        *)
(* (xPercent * base width, yPercent * base height), and activePoint 0.     *)
C14_LegacyMigrated ==
    (/\ mounted /\ ~needRender /\ last.op \in {"mount", "navigate", "load"}
     /\ last.legacy) =>
        /\ "points" \in DOMAIN Shown
        /\ Len(Shown.points) = 1
        /\ \E base \in {FallbackImageSize, NaturalSize} :
               Shown.points[1] = [x |-> Round(Shown.point.xPercent * base.w),
                                  y |-> Round(Shown.point.yPercent * base.h)]
        /\ Shown.activePoint = 0

(* C15: once CustomMap has mounted on a context with no points and no     *)
(* legacy point and has settled, the context holds the one point           *)
(* (0, base height) and activePoint 0, the base height being the image's   *)
(* natural height once the image has loaded; a context that had a point    *)
(* keeps its points.                                                       *)
C15_SeedBottomLeft ==
    (/\ mounted /\ ~needRender /\ last.op \in {"mount", "navigate", "load"}
     /\ ~last.legacy) =>
        IF last.had = <<>>
        THEN /\ Shown.points = <<[x |-> 0, y |-> imageSize.h]>>
             /\ Shown.activePoint = 0
        ELSE Shown.points = last.had

----------------------------------------------------------------------------
(* C16: ensureViewer called with the container of the stored handle while *)
(* that container is attached constructs no Viewer, destroys none, starts  *)
(* no loop, and leaves handle, container, snapshot and subscribers alone.  *)
C16_EnsureIdempotent ==
    (/\ last.op = "ensure" /\ last.before.viewer # 0
     /\ last.before.viewerContainer = last.container /\ last.attached) =>
        /\ viewer = last.before.viewer
        /\ viewerContainer = last.before.viewerContainer
        /\ viewers = last.before.viewers
        /\ appYaw = last.before.yaw /\ appPitch = last.before.pitch
        /\ out = last.before.out
        /\ positionSubscribers = last.before.subscribers

C16_Witness ==
    /\ last.op = "ensure" /\ last.before.viewer = 1
    /\ last.before.viewerContainer = last.container /\ last.attached
    /\ Len(viewers) = 1 /\ viewers[1].loop /\ viewers[1].polled.has
    /\ commands = 2

(* C17: ensureViewer that finds a handle on another container, or on a    *)
(* container no longer attached, calls destroy on it and installs a newly  *)
(* constructed Viewer on the given container, also when destroy throws;    *)
(* the stored handle is never one that destroy was called on.              *)
C17_StaleHandleReplaced ==
    /\ viewer # 0 =>
           /\ viewer = Len(viewers)
           /\ ~viewers[viewer].destroyCalled
           /\ viewers[viewer].container = viewerContainer
    /\ viewer = 0 => viewerContainer = 0
    /\ (/\ last.op = "ensure" /\ last.before.viewer # 0
        /\ (last.before.viewerContainer # last.container \/ ~last.attached)) =>
           /\ viewers[last.before.viewer].destroyCalled
           /\ Len(viewers) = Len(last.before.viewers) + 1
           /\ viewer = Len(viewers)
           /\ viewerContainer = last.container
           /\ viewers[viewer].alive

C17_Witness ==
    /\ last.op = "ensure" /\ last.before.viewer = 1
    /\ last.before.viewerContainer = last.container /\ ~last.attached
    /\ viewers[1].throws /\ viewers[1].destroyCalled
    /\ viewer = 2 /\ viewerContainer = last.container

(* C18: a Viewer that destroy was called on has no loop running, and at   *)
(* most one loop is running at any time.                                  *)
C18_NoOrphanLoop ==
    /\ \A i \in 1..Len(viewers) : viewers[i].destroyCalled => ~viewers[i].loop
    /\ Cardinality({i \in 1..Len(viewers) : viewers[i].loop}) <= 1

(* C19: the subscribers are called at most once with the orientation the  *)
(* viewer on show has taken, never twice in a row with the same pair, and  *)
(* at most once in one animation frame.                                    *)
C19_OneEmissionPerChange ==
    /\ viewer # 0 =>
           Cardinality({j \in 1..Len(out) :
               out[j] = [yaw |-> viewers[viewer].yaw,
                         pitch |-> viewers[viewer].pitch]}) <= 1
    /\ \A j \in 2..Len(out) : out[j] # out[j - 1]
    /\ frameEmits <= 1

(* C20: setYawPitch with no handle changes nothing; with a handle, the    *)
(* snapshot's yaw is the supplied yaw if one was supplied and is as before *)
(* otherwise, likewise the pitch, whatever the viewer call comes to; the   *)
(* subscribers are not called.                                             *)
C20_CommandOrientation ==
    last.op = "command" =>
        /\ viewer = last.before.viewer
        /\ out = last.before.out
        /\ IF last.before.viewer = 0
           THEN appYaw = last.before.yaw /\ appPitch = last.before.pitch
           ELSE /\ appYaw = IF last.hy THEN last.yaw ELSE last.before.yaw
                /\ appPitch = IF last.hp THEN last.pitch ELSE last.before.pitch

C20_Witness ==
    /\ last.op = "command" /\ last.before.viewer # 0 /\ last.how = "throws"
    /\ ~last.hy /\ last.hp /\ last.before.yaw # 0
    /\ appYaw = last.before.yaw /\ appPitch = last.pitch
    /\ last.before.pitch # last.pitch
    /\ out # <<>>

(* C21: setYawPitch with a handle makes at most one call on the viewer,    *)
(* with the supplied yaw and pitch or the snapshot's where one is left out: *)
(* animate if animation is asked for and the viewer has animate, otherwise  *)
(* rotate if the viewer has rotate, otherwise no call; and whatever the     *)
(* call comes to, the command completes and sets the snapshot.              *)
C21_CommandCall ==
    (last.op = "command" /\ last.before.viewer # 0) =>
        /\ last.call.count <= 1
        /\ last.call.method =
               IF last.animate /\ last.build.animate THEN "animate"
               ELSE IF last.build.rotate THEN "rotate" ELSE "none"
        /\ last.call.count = 1 =>
               /\ last.call.yaw = IF last.hy THEN last.yaw ELSE last.before.yaw
               /\ last.call.pitch = IF last.hp THEN last.pitch ELSE last.before.pitch
        /\ (last.hy \/ last.hp) =>
               /\ appYaw = IF last.hy THEN last.yaw ELSE last.before.yaw
               /\ appPitch = IF last.hp THEN last.pitch ELSE last.before.pitch

C21_Witness ==
    /\ last.op = "command" /\ last.before.viewer # 0
    /\ last.animate /\ ~last.build.animate /\ last.build.rotate /\ last.build.throws
    /\ last.call.method = "rotate"
    /\ last.hy /\ ~last.hp /\ last.before.pitch # 0
    /\ last.call.pitch = last.before.pitch /\ last.call.yaw = last.yaw

(* C22: every emission calls the callback of every subscription that has   *)
(* been made and not unsubscribed, whatever other subscriptions, of the     *)
(* same callback or of another, have been unsubscribed since; and it calls  *)
(* no callback that has no such subscription.                               *)
C22_SubscriptionsIndependent ==
    last.op = "emit" =>
        /\ \A n \in 1..Len(subscriptions) :
               subscriptions[n].live =>
                   \E j \in 1..Len(out) : out[j].cb = subscriptions[n].cb
        /\ \A j \in 1..Len(out) :
               \E n \in 1..Len(subscriptions) :
                   subscriptions[n].live /\ subscriptions[n].cb = out[j].cb

\* the squared distance of a path command's point from the centre drawn from,
\* in units of the radius drawn with
FromCentre2(cmd) ==
    LET ux == ((cmd.x - last.cx) * 1000) \div last.r
        uy == ((cmd.y - last.cy) * 1000) \div last.r
    IN  ux * ux + uy * uy

\* at distance r, as far as sines and cosines in thousandths tell
AtRadius(cmd) ==
    LET d == FromCentre2(cmd) - 1000 * 1000
    IN  d <= 2000 /\ -d <= 2000

(* C23: sectorPath with a pitch of 0 or less gives a path whose only       *)
(* coordinate is the centre; with a pitch between 0 and a full turn it      *)
(* gives move to the centre, line to the point at distance r in direction   *)
(* yaw - pitch/2, one clockwise arc of radius r to the point at distance r  *)
(* in direction yaw + pitch/2, close; the large-arc flag is 1 exactly when  *)
(* the pitch is greater than Math.PI.                                       *)
C23_SectorShape ==
    last.op = "sector" =>
        IF last.pitch <= 0
        THEN /\ out # <<>>
             /\ \A j \in 1..Len(out) :
                    "x" \in DOMAIN out[j] =>
                        out[j].x = last.cx /\ out[j].y = last.cy
        ELSE /\ Len(out) = 4
             /\ out[1] = MoveTo(last.cx, last.cy)
             /\ out[2] = LineTo(polarToCartesian(last.cx, last.cy, last.r,
                                                 last.yaw - last.pitch \div 2))
             /\ out[3].c = "A" /\ out[3].rx = last.r /\ out[3].ry = last.r
             /\ out[3].sweepFlag = 1
             /\ out[3].largeArcFlag = (IF last.pitch > Pi THEN 1 ELSE 0)
             /\ [x |-> out[3].x, y |-> out[3].y] =
                    polarToCartesian(last.cx, last.cy, last.r,
                                     last.yaw + last.pitch \div 2)
             /\ AtRadius(out[2]) /\ AtRadius(out[3])
             /\ out[4] = ClosePath

\* the stored state of the context on show, once React has rendered it with points
Drawn == mounted /\ Settled /\ Len(StateForPath(pathToState, pathname).points) > 0

\* the stored point that is the active one
ActiveStored ==
    LET state == StateForPath(pathToState, pathname)
    IN  state.points[ActiveIdx(state, state.points) + 1]

\* the squared distance of a path command's point from a centre, in units of a
\* radius r
Distance2(cmd, centre, r) ==
    LET ux == ((cmd.x - centre.x) * 1000) \div r
        uy == ((cmd.y - centre.y) * 1000) \div r
    IN  ux * ux + uy * uy

(* C24: the origin CustomMap renders is the stored active point multiplied *)
(* by the scale, and the sector it renders has the stored cone radius       *)
(* multiplied by the scale: its arc's two ends lie at that distance from    *)
(* the origin.  With the point (0, 360), radius 100 and scale 0.5 the       *)
(* origin is (0, 180) and the ends of the arc are 50 from it.               *)
C24_RenderedScaled ==
    (Drawn /\ coneLocal.radius # NoRadius /\ coneLocal.pitch > 0) =>
        LET pr == MapWithConeProps
            r == coneLocal.radius * scale.value
            path == ConePath(pr)
        IN  /\ Origin(pr) = [x |-> ActiveStored.x * scale.value,
                             y |-> ActiveStored.y * scale.value]
            /\ Radius(pr) = r
            /\ path[3].rx = r
            /\ \A j \in 2..3 :
                   LET d == Distance2(path[j], Origin(pr), r) - 1000 * 1000
                   IN  d <= 2000 /\ -d <= 2000

(* C30: whenever CustomMap has rendered, the scale it places the points    *)
(* with is min(container_w / base_w, container_h / base_h) for the base     *)
(* dimensions of that moment, or 1 while the container is unmeasured, and   *)
(* the offsets are (container - base * scale) / 2 on each axis.             *)
C30_ScaleContains ==
    (mounted /\ Settled) =>
        LET sc == ScaleOf(outerSize, imageSize)
        IN  /\ scale.value = sc
            /\ Offsets = [x |-> (Pixels(outerSize.w) - imageSize.w * sc) \div 2,
                          y |-> (Pixels(outerSize.h) - imageSize.h * sc) \div 2]

\* the farthest the popup can be panned on each axis
PanMax ==
    [x |-> Max(0, props.width - props.viewport.w),
     y |-> Max(0, props.height - props.viewport.h)]

Clamp(n, lo, hi) == IF n < lo THEN lo ELSE IF n > hi THEN hi ELSE n

(* C25: a pointer-move on the popup during an active pan sets the pan on   *)
(* each axis to clamp(startOffset - (pointer - startPointer), 0,            *)
(* max(0, content - viewport)); a pointer-move with no active pan leaves    *)
(* the pan as it was; and the pan always lies between 0 and                 *)
(* max(0, content - viewport) on both axes.                                 *)
C25_PanClamped ==
    /\ pan.x >= 0 /\ pan.x <= PanMax.x
    /\ pan.y >= 0 /\ pan.y <= PanMax.y
    /\ last.op = "panmove" =>
           IF last.before.ref.active
           THEN /\ pan.x = Clamp(last.before.ref.startPanX
                                    - (last.x - last.before.ref.startX), 0, PanMax.x)
                /\ pan.y = Clamp(last.before.ref.startPanY
                                    - (last.y - last.before.ref.startY), 0, PanMax.y)
           ELSE pan = last.before.pan

C25_Witness ==
    /\ last.op = "panmove" /\ last.before.ref.active
    /\ last.before.ref.startPanX = 0 /\ last.before.ref.startPanY = 0
    /\ last.before.ref.startX - last.x > PanMax.x /\ pan.x = PanMax.x /\ pan.x > 0
    /\ pan.y = last.before.ref.startY - last.y /\ pan.y > 0 /\ pan.y < PanMax.y

(* C26: at most one drag recomputation is pending at any time, a newer    *)
(* pointer-move taking the place of the pending one; and a frame that      *)
(* fires emits exactly one cone-change, whose yaw is computed from the     *)
(* last pointer position taken up before the frame.                        *)
C26_MovesCoalesced ==
    /\ Cardinality(scheduled) <= 1
    /\ scheduled # {} => \A c \in scheduled : c.x = lastMove.x /\ c.y = lastMove.y
    /\ last.op = "frame" =>
           /\ Len(out) = 1
           /\ \A c \in last.ran :
                  out[1].cone.yaw = Atan2(lastMove.y - c.origin.y, lastMove.x - c.origin.x)

C26_Witness ==
    /\ last.op = "frame" /\ Len(out) = 1
    /\ \E c \in last.ran : c.id = 3
    /\ out[1].cone.yaw = 157
    /\ last.before.was

(* C27: the cone a drag frame emits is the cone of the moment the frame    *)
(* fires with only the yaw replaced, by atan2(dy, dx) from the origin to   *)
(* the pointer: its pitch and radius are the cone's at that moment, also   *)
(* when a key changed the cone between the pointer-move and the frame.     *)
C27_FrameKeepsCone ==
    last.op = "frame" =>
        \A j \in 1..Len(out) :
            /\ out[j].cone.pitch = last.before.cone.pitch
            /\ out[j].cone.radius = last.before.cone.radius
            /\ \E c \in last.ran :
                   out[j].cone.yaw = Atan2(c.y - c.origin.y, c.x - c.origin.x)

(* C28: a drag frame emits a cone-change only while the overlay is being   *)
(* dragged: none after pointer-up has ended the drag, and none after the   *)
(* overlay is unmounted.                                                   *)
C28_NoEmissionOutsideDrag ==
    (last.op = "frame" /\ out # <<>>) => (last.shown /\ last.before.was)

(* C29: while the overlay follows the screen and has an onConeChange, an   *)
(* orientationchange or resize event emits one cone-change whose yaw is    *)
(* the yaw before the event plus the angle the screen has turned since     *)
(* the baseline was captured, and calls onRotateWithScreen (if passed)     *)
(* with that yaw; the baseline is the current yaw and screen angle after   *)
(* enabling and after every change of the yaw, so an event at an unchanged *)
(* angle leaves the yaw alone and turns add up; nothing is emitted while   *)
(* the overlay does not follow the screen.                                 *)
C29_FollowsScreen ==
    /\ (RotateWithScreen(props) /\ props.onConeChange) =>
           /\ baseYawRef = props.cone.yaw
           /\ baseAngleRef = getScreenAngleRad(screenAngle)
    /\ (last.op = "screen" /\ RotateWithScreen(props) /\ props.onConeChange) =>
           /\ out[1] = ConeChanged([last.before.cone EXCEPT
                                      !.yaw = last.before.cone.yaw + (last.to - last.from)])
           /\ props.onRotateWithScreen =>
                  out = <<out[1], ScreenRotated(out[1].cone.yaw)>>
           /\ ~props.onRotateWithScreen => Len(out) = 1
           /\ last.to = last.from => props.cone.yaw = last.before.cone.yaw
    /\ (last.op = "screen" /\ ~RotateWithScreen(props)) => out = <<>>

C29_Witness ==
    /\ last.op = "screen" /\ last.listens /\ props.onRotateWithScreen
    /\ last.before.cone.yaw = 2 + 157
    /\ last.from = 157 /\ last.to = 314
    /\ Len(out) = 2 /\ out[2].yaw = 2 + 314

(* C35: if the user has set the cone yaw of a context by key and the       *)
(* orientation store has not emitted since, then once CustomMap has been   *)
(* navigated to that context again, or shown again on it, and has          *)
(* rendered, the cone stored for the context and the cone displayed have   *)
(* the yaw the user set.                                                   *)
C35_YawSurvives ==
    (mounted /\ Settled /\ last.op \in {"mount", "navigate"} /\ userYaw[pathname].has) =>
        /\ StateForPath(pathToState, pathname).cone.yaw = userYaw[pathname].yaw
        /\ coneLocal.yaw = userYaw[pathname].yaw

(* C31: when a pointer-down on the overlay CustomMap renders picks a point,*)
(* the picked index is written to the store: the context's activePoint is  *)
(* the picked index, and the origin of the next render is the picked point.*)
C31_PickWrittenBack ==
    (last.op = "pick" /\ last.picked # NotPicked) =>
        /\ StateForPath(pathToState, pathname).activePoint = last.picked
        /\ Settled =>
               Origin(InPixels(MapWithConeProps)) =
                   StateForPath(pathToState, pathname).points[last.picked + 1]

(* C32: the origin index CustomMap hands to MapWithCone is the stored      *)
(* activePoint clamped to 0 .. max(0, number of points - 1), and 0 for an   *)
(* activePoint that is no integer; so whatever activePoint is stored, with  *)
(* a point list that is not empty the origin of the cone is one of the      *)
(* scaled points.                                                          *)
C32_OriginIndexClamped ==
    (mounted /\ Settled) =>
        LET raw == RawOrDefault(pathToState, pathname)
            state == StateForPath(pathToState, pathname)
            pts == PointsGrid(state, imageSize)
            pr == MapWithConeProps
        IN  /\ pr.coneOriginIndex =
                   IF "activePoint" \in DOMAIN raw /\ "points" \in DOMAIN raw
                   THEN Clamp(raw.activePoint, 0, Max(0, Len(pts) - 1))
                   ELSE 0
            /\ Len(pts) > 0 =>
                   /\ pr.coneOriginIndex \in 0..(Len(pts) - 1)
                   /\ Origin(pr) = pr.points[pr.coneOriginIndex + 1]
                   /\ Origin(pr) # [x |-> pr.width \div 2, y |-> pr.height \div 2]

C32_Witness ==
    /\ mounted /\ Settled
    /\ "activePoint" \in DOMAIN RawOrDefault(pathToState, pathname)
    /\ pathToState[pathname].activePoint = 5
    /\ Len(pathToState[pathname].points) = 3
    /\ MapWithConeProps.coneOriginIndex = 2
    /\ Origin(MapWithConeProps) = [x |-> Pixels(400), y |-> Pixels(100)]

OriginIsPoint == props.coneOriginIndex >= 0 /\ props.coneOriginIndex < Len(props.points)

(* C34: in the overlay with origin picking, while the origin is one of the *)
(* points, every pointer-down within originHandleRadius of the origin      *)
(* picks a point and none starts a drag: the overlay is dragged only with  *)
(* the origin on the fallback centre.                                      *)
C34_DragOnlyFromCentre ==
    (props.variant = "picking" /\ OriginIsPoint) =>
        /\ ~isDragging /\ captured = {}
        /\ (last.op = "down" /\ props.interactive
              /\ Dist2(last.e.x, last.e.y, Origin(props))
                     <= props.originHandleRadius * props.originHandleRadius) =>
               Picked(props.points, last.e.x, last.e.y, props.originHandleRadius)
                   # NotPicked

C34_Witness ==
    /\ props.variant = "picking" /\ OriginIsPoint /\ props.interactive
    /\ last.op = "down"
    /\ Dist2(last.e.x, last.e.y, Origin(props))
           = props.originHandleRadius * props.originHandleRadius
    /\ ~isDragging

(* C36: a getStateForPath or a setter on key k leaves the stored record of *)
(* every other key as it is, and no operation of the store removes a key   *)
(* that is stored.                                                         *)
C36_KeysIsolated ==
    [][/\ \A j \in DOMAIN pathToState : j \in DOMAIN pathToState'
       /\ \A j \in DOMAIN pathToState :
              (last'.op \in {"get", "set"} /\ last'.key # j) =>
                  pathToState'[j] = pathToState[j]]_vars

C36_Witness ==
    /\ last.op = "set" /\ last.key = "/b" /\ last.what = "cone"
    /\ DOMAIN pathToState = {"/a", "/b"}
    /\ pathToState["/a"].points = <<[x |-> 40, y |-> 30]>>
    /\ pathToState["/b"].cone \in StoreCones

(* C37: after any mounts, unmounts, changes of the context key and of the *)
(* pitch, positionSubscribers holds exactly one callback while CustomMap    *)
(* is mounted, the one its last subscribe effect registered, and none while *)
(* it is not; so an emission is handled once by a mounted CustomMap and     *)
(* not at all by an unmounted one.                                          *)
C37_OneSubscription ==
    /\ Len(positionSubscribers) = IF mounted THEN 1 ELSE 0
    /\ mounted => positionSubscribers[1].id = subId
    /\ (mounted /\ Settled) =>
           /\ positionSubscribers[1].path = pathname
           /\ positionSubscribers[1].pitch = coneLocal.pitch
    /\ last.op = "emit" =>
           /\ Len(out) <= 1
           /\ ~last.heard => (out = <<>> /\ coneLocal = last.before)

C37_Witness ==
    /\ mounted /\ Settled /\ last.op = "navigate"
    /\ Len(positionSubscribers) = 1
    /\ positionSubscribers[1].path = "/b"
    /\ positionSubscribers[1].pitch # DefaultPitch

(* C38: in BeforeAfterSlider with a container of positive width, after any *)
(* pointer-downs, pointer-moves, pointer-ups and key presses the percent is *)
(* from 0 to 100, and a pointer-move changes the percent only if the last   *)
(* pointer-down has not been followed by a pointer-up.                      *)
C38_PercentInRange ==
    /\ percent >= 0 /\ percent <= PercentMax
    /\ (last.op = "slidermove" /\ percent # last.before.percent) => last.before.held

C38_Witness ==
    /\ last.op = "slidermove" /\ last.before.held
    /\ last.before.percent = SliderStep
    /\ percent = PercentMax

====
